---- MODULE Spec2Model ----
(***************************************************************************)
(* rutilelib: hierarchical layout algebra, tile iterators and tiled views. *)
(*                                                                         *)
(* A Tuple (src/src/tuple.rs) is modelled as a record                       *)
(*   [k |-> "Int", v |-> <<n1, ..., nk>>]   -- Tuple::Int(Vec<usize>)       *)
(*   [k |-> "Tup", t |-> <<t1, ..., tk>>]   -- Tuple::Tup(Vec<Tuple>)       *)
(* A Shape (src/src/shape.rs) wraps one Tuple (dims) and is modelled as     *)
(* that Tuple.  A Layout is [shape, stride, contig].                        *)
(* A call that panics returns [ok |-> FALSE, ...]; a call that returns      *)
(* gives [ok |-> TRUE, val |-> result].                                     *)
(* Rust vectors are 0-based, TLA+ sequences 1-based: position d of the      *)
(* source is position d+1 here; buffer offsets stay 0-based.                *)
(***************************************************************************)
EXTENDS Integers, Sequences, FiniteSets, TLC

(***************************************************************************)
(* Bounds of the model.                                                    *)
(***************************************************************************)
\* largest extent of a tile or of a tensor dimension in the tiled machine
MaxExtent == 3
\* largest number of dimensions of the tiled tensor
MaxRank == 2
\* next() calls allowed beyond the number of cells of the index box
MaxExtraCalls == 2
\* largest number of extents (leaf integers) of a shape a layout is built over
MaxLeaves == 3
\* largest extent of such a shape
MaxDim == 2
\* linear indexes past the size of a layout that idx2crd is called with
MaxPast == 2
\* threads that call GenericBlas::gemm_f32, and calls they make in all
MaxThreads == 2
MaxBlasCalls == 2

(***************************************************************************)
(* Small helpers on sequences of naturals.                                  *)
(***************************************************************************)
Min(a, b) == IF a < b THEN a ELSE b

RECURSIVE SeqProduct(_)
SeqProduct(s) == IF s = <<>> THEN 1 ELSE Head(s) * SeqProduct(Tail(s))

RECURSIVE SeqSum(_)
SeqSum(s) == IF s = <<>> THEN 0 ELSE Head(s) + SeqSum(Tail(s))

RECURSIVE Concat(_)
Concat(ss) == IF ss = <<>> THEN <<>> ELSE Head(ss) \o Concat(Tail(ss))

\* all sequences of length n over the set S
SeqsOfLen(S, n) == [1..n -> S]

RECURSIVE SeqMax(_)
SeqMax(s) == IF s = <<>> THEN 0
             ELSE LET m == SeqMax(Tail(s)) IN IF Head(s) > m THEN Head(s) ELSE m

\* all index vectors x with 0 <= x[d] < ext[d]
Box(ext) == { x \in [1..Len(ext) -> 0..SeqMax(ext)] :
                \A d \in 1..Len(ext) : x[d] < ext[d] }

(***************************************************************************)
(* Tuple (src/src/tuple.rs)                                                 *)
(***************************************************************************)
int(v) == [k |-> "Int", v |-> v]

tup(v) == [k |-> "Tup", t |-> v]

\* Tuple::len: the number of elements at the top level
len(t) == IF t.k = "Int" THEN Len(t.v) ELSE Len(t.t)

Ok(x) == [ok |-> TRUE, val |-> x]

Panic == [ok |-> FALSE, val |-> 0]

RECURSIVE size(_)
size(t) ==
  IF t.k = "Int" THEN SeqProduct(t.v)
  ELSE SeqProduct([i \in 1..Len(t.t) |-> size(t.t[i])])

RECURSIVE flatten(_)
flatten(t) ==
  IF t.k = "Int" THEN t.v
  ELSE Concat([i \in 1..Len(t.t) |-> flatten(t.t[i])])

flat_len(t) == Len(flatten(t))

\* derive(PartialEq) on Tuple: same variant and pairwise equal contents
RECURSIVE TupleEq(_, _)
TupleEq(a, b) ==
  /\ a.k = b.k
  /\ len(a) = len(b)
  /\ IF a.k = "Int" THEN a.v = b.v
     ELSE \A i \in 1..Len(a.t) : TupleEq(a.t[i], b.t[i])

\* structural congruence of two trees: same variant, same length, at every depth
RECURSIVE Congruent(_, _)
Congruent(a, b) ==
  /\ a.k = b.k
  /\ len(a) = len(b)
  /\ a.k = "Tup" => \A i \in 1..Len(a.t) : Congruent(a.t[i], b.t[i])

\* Tuple::dot: zip stops at the shorter operand; only Int-vs-Tup panics
RECURSIVE dot(_, _)
dot(a, b) ==
  IF a.k = "Int" /\ b.k = "Int"
  THEN Ok(SeqSum([i \in 1..Min(Len(a.v), Len(b.v)) |-> a.v[i] * b.v[i]]))
  ELSE IF a.k = "Tup" /\ b.k = "Tup"
  THEN LET n  == Min(Len(a.t), Len(b.t))
           rs == [i \in 1..n |-> dot(a.t[i], b.t[i])]
       IN IF \E i \in 1..n : ~rs[i].ok THEN Panic
          ELSE Ok(SeqSum([i \in 1..n |-> rs[i].val]))
  ELSE Panic

(***************************************************************************)
(* Layout (src/src/layout.rs)                                               *)
(***************************************************************************)
\* a scale_stride that scales a leaf and leaves the children of a branch alone
ScaleStrideShallow(t, factor) ==
  IF t.k = "Int" THEN int([i \in 1..Len(t.v) |-> t.v[i] * factor]) ELSE t

RECURSIVE scale_stride(_, _)
scale_stride(t, factor) ==
  IF t.k = "Int" THEN int([i \in 1..Len(t.v) |-> t.v[i] * factor])
  ELSE tup([i \in 1..Len(t.t) |-> scale_stride(t.t[i], factor)])

\* the leaf loop of row_major_stride: i runs from the last position down
RECURSIVE RowLeafLoop(_, _, _, _)
RowLeafLoop(sizes, i, acc, stride) ==
  IF i = 0 THEN stride
  ELSE RowLeafLoop(sizes, i - 1, acc * sizes[i], [stride EXCEPT ![i] = acc])

\* the leaf loop of col_major_stride: i runs from the first position up
RECURSIVE ColLeafLoop(_, _, _, _)
ColLeafLoop(sizes, i, acc, stride) ==
  IF i > Len(sizes) THEN stride
  ELSE ColLeafLoop(sizes, i + 1, acc * sizes[i], Append(stride, acc))

RECURSIVE row_major_stride(_)
RECURSIVE RowTupLoop(_, _, _, _)
RowTupLoop(v, i, acc, out) ==
  IF i = 0 THEN out
  ELSE RowTupLoop(v, i - 1, acc * size(v[i]),
                  <<scale_stride(row_major_stride(v[i]), acc)>> \o out)

\* a row_major_stride that does not scale the strides of a child by the size of
\* the children to its right
RowMajorStrideUnscaled(shape) ==
  IF shape.k = "Int"
  THEN int(RowLeafLoop(shape.v, Len(shape.v), 1, [i \in 1..Len(shape.v) |-> 0]))
  ELSE tup([i \in 1..Len(shape.t) |-> row_major_stride(shape.t[i])])

row_major_stride(shape) ==
  IF shape.k = "Int"
  THEN int(RowLeafLoop(shape.v, Len(shape.v), 1, [i \in 1..Len(shape.v) |-> 0]))
  ELSE tup(RowTupLoop(shape.t, Len(shape.t), 1, <<>>))

RECURSIVE col_major_stride(_)
RECURSIVE ColTupLoop(_, _, _, _)
ColTupLoop(v, i, acc, out) ==
  IF i > Len(v) THEN out
  ELSE ColTupLoop(v, i + 1, acc * size(v[i]),
                  Append(out, scale_stride(col_major_stride(v[i]), acc)))

\* a col_major_stride that does not scale the strides of a child by the size of
\* the children to its left
ColMajorStrideUnscaled(shape) ==
  IF shape.k = "Int" THEN int(ColLeafLoop(shape.v, 1, 1, <<>>))
  ELSE tup([i \in 1..Len(shape.t) |-> col_major_stride(shape.t[i])])

col_major_stride(shape) ==
  IF shape.k = "Int" THEN int(ColLeafLoop(shape.v, 1, 1, <<>>))
  ELSE tup(ColTupLoop(shape.t, 1, 1, <<>>))

\* is_layout_contig: walk the flattened strides from the innermost outwards
RECURSIVE ContigLoop(_, _, _, _)
ContigLoop(fshape, fstride, dim, expected) ==
  IF dim = Len(fstride) THEN Ok(TRUE)
  ELSE IF fstride[Len(fstride) - dim] # expected THEN Ok(FALSE)
  ELSE IF Len(fshape) - dim < 1 THEN Panic
  ELSE ContigLoop(fshape, fstride, dim + 1, expected * fshape[Len(fshape) - dim])

\* an is_layout_contig that looks at the innermost stride only
InnermostStrideIsUnit(shape, stride) ==
  LET fstride == flatten(stride)
  IN Ok(fstride = <<>> \/ fstride[Len(fstride)] = 1)

is_layout_contig(shape, stride) == ContigLoop(flatten(shape), flatten(stride), 0, 1)

\* Layout::new::<P>: the flag is set to true whatever the policy
LayoutNew(policy, shape) ==
  [shape  |-> shape,
   stride |-> IF policy = "RowMajor" THEN row_major_stride(shape)
              ELSE col_major_stride(shape),
   contig |-> TRUE]

row_major(shape) == LayoutNew("RowMajor", shape)

col_major(shape) == LayoutNew("ColMajor", shape)

\* Layout::with_shape_stride (panics when is_layout_contig indexes out of range)
with_shape_stride(shape, stride) ==
  LET c == is_layout_contig(shape, stride)
  IN IF c.ok THEN Ok([shape |-> shape, stride |-> stride, contig |-> c.val])
     ELSE Panic

\* an is_contiguous that reports every layout contiguous
AlwaysContiguous(l) == TRUE

is_contiguous(l) == l.contig

crd2idx(l, crd) == dot(crd, l.stride)

\* derive(PartialEq) on Layout: shape, stride and the contig flag all take part
LayoutEq(a, b) ==
  /\ TupleEq(a.shape, b.shape)
  /\ TupleEq(a.stride, b.stride)
  /\ a.contig = b.contig

\* Layout::cosize: a leaf gives sum((s-1)*st)+1, a branch resolves to its last child
RECURSIVE CosizeRecur(_, _)
CosizeRecur(shape, stride) ==
  IF shape.k = "Int" /\ stride.k = "Int"
  THEN LET n == Min(Len(shape.v), Len(stride.v))
       IN IF \E i \in 1..n : shape.v[i] = 0 THEN Panic
          ELSE Ok(SeqSum([i \in 1..n |-> (shape.v[i] - 1) * stride.v[i]]) + 1)
  ELSE IF shape.k = "Tup" /\ stride.k = "Tup"
  THEN IF shape.t = <<>> \/ stride.t = <<>> THEN Panic
       ELSE CosizeRecur(shape.t[Len(shape.t)], stride.t[Len(stride.t)])
  ELSE Panic

cosize(l) == CosizeRecur(l.shape, l.stride)

\* a leaf loop of idx2crd without the assertion v < sz
RECURSIVE Idx2CrdLeafUnchecked(_, _, _, _, _)
Idx2CrdLeafUnchecked(idx, sizes, strides, i, out) ==
  IF i > Min(Len(sizes), Len(strides)) THEN [ok |-> TRUE, idx |-> idx, val |-> int(out)]
  ELSE IF strides[i] = 0 THEN [ok |-> FALSE, idx |-> idx, val |-> int(out)]
  ELSE LET v == idx \div strides[i]
       IN Idx2CrdLeafUnchecked(idx - v * strides[i], sizes, strides, i + 1, Append(out, v))

\* the leaf loop of idx2crd: v = idx / st; idx -= v * st; assert!(v < sz)
RECURSIVE Idx2CrdLeaf(_, _, _, _, _)
Idx2CrdLeaf(idx, sizes, strides, i, out) ==
  IF i > Min(Len(sizes), Len(strides)) THEN [ok |-> TRUE, idx |-> idx, val |-> int(out)]
  ELSE IF strides[i] = 0 THEN [ok |-> FALSE, idx |-> idx, val |-> int(out)]
  ELSE LET v == idx \div strides[i]
       IN IF ~(v < sizes[i]) THEN [ok |-> FALSE, idx |-> idx, val |-> int(out)]
          ELSE Idx2CrdLeaf(idx - v * strides[i], sizes, strides, i + 1, Append(out, v))

\* idx2crd's recur: the remaining index is threaded through the tree in pre-order
RECURSIVE Idx2CrdRecur(_, _, _)
RECURSIVE Idx2CrdTup(_, _, _, _, _)
Idx2CrdTup(idx, ss, st, i, out) ==
  IF i > Min(Len(ss), Len(st)) THEN [ok |-> TRUE, idx |-> idx, val |-> tup(out)]
  ELSE LET r == Idx2CrdRecur(idx, ss[i], st[i])
       IN IF ~r.ok THEN [ok |-> FALSE, idx |-> idx, val |-> tup(out)]
          ELSE Idx2CrdTup(r.idx, ss, st, i + 1, Append(out, r.val))

Idx2CrdRecur(idx, shape, stride) ==
  IF shape.k = "Int" /\ stride.k = "Int"
  THEN Idx2CrdLeaf(idx, shape.v, stride.v, 1, <<>>)
  ELSE IF shape.k = "Tup" /\ stride.k = "Tup"
  THEN Idx2CrdTup(idx, shape.t, stride.t, 1, <<>>)
  ELSE [ok |-> FALSE, idx |-> idx, val |-> int(<<>>)]

idx2crd(l, idx) ==
  LET r == Idx2CrdRecur(idx, l.shape, l.stride)
  IN IF r.ok THEN Ok(r.val) ELSE Panic

(***************************************************************************)
(* Layout algebra (src/src/layout_algebra.rs)                               *)
(***************************************************************************)
\* a logical_divide recur that keeps the whole extent beside the tile: (T, L)
RECURSIVE LogicalRecurWhole(_, _)
LogicalRecurWhole(l, t) ==
  IF l.k = "Int" /\ t.k = "Int"
  THEN Ok(tup([i \in 1..Min(Len(l.v), Len(t.v)) |-> int(<<t.v[i], l.v[i]>>)]))
  ELSE IF l.k = "Tup" /\ t.k = "Tup"
  THEN Ok(tup([i \in 1..Min(Len(l.t), Len(t.t)) |-> LogicalRecurWhole(l.t[i], t.t[i]).val]))
  ELSE Panic

\* logical_divide's recur: every extent l matched with t becomes the pair
\* (t, l - t); the subtraction of usize panics on overflow when t > l
RECURSIVE LogicalRecur(_, _)
LogicalRecur(l, t) ==
  IF l.k = "Int" /\ t.k = "Int"
  THEN LET n == Min(Len(l.v), Len(t.v))
       IN IF \E i \in 1..n : t.v[i] > l.v[i] THEN Panic
          ELSE Ok(tup([i \in 1..n |-> int(<<t.v[i], l.v[i] - t.v[i]>>)]))
  ELSE IF l.k = "Tup" /\ t.k = "Tup"
  THEN LET n  == Min(Len(l.t), Len(t.t))
           rs == [i \in 1..n |-> LogicalRecur(l.t[i], t.t[i])]
       IN IF \E i \in 1..n : ~rs[i].ok THEN Panic
          ELSE Ok(tup([i \in 1..n |-> rs[i].val]))
  ELSE Panic

logical_divide(layout, tiler) ==
  LET r == LogicalRecur(layout.shape, tiler.shape)
  IN IF r.ok THEN Ok(row_major(r.val)) ELSE Panic

\* a zipped_divide recur whose rest holds the remainders l % t
RECURSIVE ZippedRecurRemainder(_, _)
ZippedRecurRemainder(l, t) ==
  IF l.k = "Int" /\ t.k = "Int"
  THEN [ok   |-> TRUE,
        tile |-> int(t.v),
        rest |-> int([i \in 1..Min(Len(l.v), Len(t.v)) |-> l.v[i] % t.v[i]])]
  ELSE IF l.k = "Tup" /\ t.k = "Tup"
  THEN LET rs == [i \in 1..Min(Len(l.t), Len(t.t)) |-> ZippedRecurRemainder(l.t[i], t.t[i])]
       IN [ok   |-> TRUE,
           tile |-> tup([i \in DOMAIN rs |-> rs[i].tile]),
           rest |-> tup([i \in DOMAIN rs |-> rs[i].rest])]
  ELSE [ok |-> FALSE]

\* zipped_divide's recur: (tile, rest), rest = integer quotients l / t
RECURSIVE ZippedRecur(_, _)
ZippedRecur(l, t) ==
  IF l.k = "Int" /\ t.k = "Int"
  THEN LET n == Min(Len(l.v), Len(t.v))
       IN IF \E i \in 1..n : t.v[i] = 0 THEN [ok |-> FALSE]
          ELSE [ok   |-> TRUE,
                tile |-> int(t.v),
                rest |-> int([i \in 1..n |-> l.v[i] \div t.v[i]])]
  ELSE IF l.k = "Tup" /\ t.k = "Tup"
  THEN LET n  == Min(Len(l.t), Len(t.t))
           rs == [i \in 1..n |-> ZippedRecur(l.t[i], t.t[i])]
       IN IF \E i \in 1..n : ~rs[i].ok THEN [ok |-> FALSE]
          ELSE [ok   |-> TRUE,
                tile |-> tup([i \in 1..n |-> rs[i].tile]),
                rest |-> tup([i \in 1..n |-> rs[i].rest])]
  ELSE [ok |-> FALSE]

zipped_divide(layout, tiler) ==
  LET r == ZippedRecur(layout.shape, tiler.shape)
  IN IF r.ok THEN Ok(row_major(tup(<<r.tile, r.rest>>))) ELSE Panic

tiled_divide(layout, tiler) ==
  LET z == zipped_divide(layout, tiler)
  IN IF ~z.ok THEN Panic
     ELSE LET v    == z.val.shape.t
              rest == IF v[2].k = "Tup" THEN v[2].t ELSE <<int(v[2].v)>>
          IN Ok(row_major(tup(<<v[1]>> \o rest)))

\* a flat_divide that lists the quotients before the tile extents
FlatDivideRestFirst(layout, tiler) ==
  LET t == tiled_divide(layout, tiler)
  IN IF ~t.ok THEN Panic
     ELSE LET f == flatten(t.val.shape)
              n == flat_len(tiler.shape)
          IN Ok(row_major(int(SubSeq(f, n + 1, Len(f)) \o SubSeq(f, 1, n))))

flat_divide(layout, tiler) ==
  LET t == tiled_divide(layout, tiler)
  IN IF ~t.ok THEN Panic ELSE Ok(row_major(int(flatten(t.val.shape))))

(***************************************************************************)
(* LayoutIterator (src/src/layout_iter.rs) and the two Layout methods that  *)
(* build one (src/src/layout.rs)                                            *)
(***************************************************************************)
LayoutIteratorNew(shape) ==
  [shape |-> shape, current |-> [d \in 1..Len(shape) |-> 0], done |-> FALSE]

\* the increment loop of LayoutIterator::next: i runs from the last position down
RECURSIVE GridAdvanceLoop(_, _)
GridAdvanceLoop(it, i) ==
  IF i = 0 THEN it
  ELSE IF it.current[i] + 1 < it.shape[i]
  THEN [it EXCEPT !.current[i] = @ + 1]
  ELSE GridAdvanceLoop([it EXCEPT !.current[i] = 0,
                                  !.done = IF i = 1 THEN TRUE ELSE @], i - 1)

GridAdvance(it) == GridAdvanceLoop(it, Len(it.current))

\* Layout::tile_iter: the first flat_len(tiler) extents of flat_divide
LayoutTileIter(l, tiler) ==
  LET flat == flat_divide(l, tiler)
  IN IF ~flat.ok THEN Panic
     ELSE Ok(LayoutIteratorNew(SubSeq(flat.val.shape.v, 1, flat_len(tiler.shape))))

\* Layout::rest_iter: the extents of flat_divide after the first flat_len(tiler)
LayoutRestIter(l, tiler) ==
  LET flat == flat_divide(l, tiler)
  IN IF ~flat.ok THEN Panic
     ELSE Ok(LayoutIteratorNew(SubSeq(flat.val.shape.v, flat_len(tiler.shape) + 1,
                                      Len(flat.val.shape.v))))

(***************************************************************************)
(* Tensor views (src/src/tensor.rs)                                         *)
(* A view is [ptr, layout]: ptr is the offset of its base in the buffer.    *)
(***************************************************************************)
\* a subview that gives the sub-view the row-major strides of its own shape
SubviewRestrided(v, start, subshape) ==
  LET offset == crd2idx(v.layout, start)
  IN IF offset.ok
     THEN Ok([ptr |-> v.ptr + offset.val, layout |-> row_major(subshape)])
     ELSE Panic

\* TensorView::subview / TensorViewMut::subview_mut
subview(view, start, subshape) ==
  LET offset == crd2idx(view.layout, start)
      l      == with_shape_stride(subshape, view.layout.stride)
  IN IF offset.ok /\ l.ok
     THEN Ok([ptr |-> view.ptr + offset.val, layout |-> l.val])
     ELSE Panic

\* the buffer offset TensorView::get / TensorViewMut::get_mut dereferences
get(view, crd) ==
  LET idx == crd2idx(view.layout, crd)
  IN IF idx.ok THEN Ok(view.ptr + idx.val) ELSE Panic

(***************************************************************************)
(* Layout to BLAS lowering (src/src/gemm.rs)                                *)
(***************************************************************************)
\* Vec indexing of flatten(): position i (0-based) of t, a panic out of range
flat_at(t, i) ==
  IF i < flat_len(t) THEN Ok(flatten(t)[i + 1]) ELSE Panic

\* a lower_matrix whose no-transpose arm returns the inner stride
LowerMatrixNoTransInner(l) ==
  LET s0 == flat_at(l.stride, 0)
      s1 == flat_at(l.stride, 1)
  IN IF flat_len(l.shape) # 2 \/ ~s0.ok \/ ~s1.ok THEN Panic
     ELSE IF s1.val = 1 THEN Ok([ld |-> s1.val, trans |-> "NoTrans"])
     ELSE IF s0.val = 1 THEN Ok([ld |-> s1.val, trans |-> "Trans"])
     ELSE Panic

\* a lower_matrix whose transpose arm returns the stride of the first dimension
LowerMatrixTransOuter(l) ==
  LET s0 == flat_at(l.stride, 0)
      s1 == flat_at(l.stride, 1)
  IN IF flat_len(l.shape) # 2 \/ ~s0.ok \/ ~s1.ok THEN Panic
     ELSE IF s1.val = 1 THEN Ok([ld |-> s0.val, trans |-> "NoTrans"])
     ELSE IF s0.val = 1 THEN Ok([ld |-> s0.val, trans |-> "Trans"])
     ELSE Panic

\* lower_matrix: (leading dimension, transpose flag) of a two-dimensional layout
lower_matrix(l) ==
  LET s0 == flat_at(l.stride, 0)
      s1 == flat_at(l.stride, 1)
  IN IF flat_len(l.shape) # 2 \/ ~s0.ok \/ ~s1.ok THEN Panic
     ELSE IF s1.val = 1 THEN Ok([ld |-> s0.val, trans |-> "NoTrans"])
     ELSE IF s0.val = 1 THEN Ok([ld |-> s1.val, trans |-> "Trans"])
     ELSE Panic

\* gemm_f32 up to the call of the backend: the arguments of that call, or a
\* panic in the shape checks, the layout checks or the lowering
gemm_f32(a, b, c) ==
  LET la == a.layout
      lb == b.layout
      lc == c.layout
      fa == flatten(la.shape)
      fb == flatten(lb.shape)
      fc == flatten(lc.shape)
  IN IF Len(fa) # 2 \/ Len(fb) # 2 \/ Len(fc) # 2 THEN Panic
     ELSE IF fb[1] # fa[2] \/ fc[1] # fa[1] \/ fc[2] # fb[2] THEN Panic
     ELSE IF ~is_contiguous(la) \/ ~is_contiguous(lb) \/ ~is_contiguous(lc) THEN Panic
     ELSE LET ra  == lower_matrix(la)
              rb  == lower_matrix(lb)
              ldc == flat_at(lc.stride, 0)
          IN IF ~ra.ok \/ ~rb.ok \/ ~ldc.ok THEN Panic
             ELSE Ok([ta  |-> ra.val.trans, tb |-> rb.val.trans,
                      m   |-> fa[1], n |-> fb[2], k |-> fa[2],
                      lda |-> ra.val.ld, ldb |-> rb.val.ld, ldc |-> ldc.val])

(***************************************************************************)
(* Ragged tile iterator and tiled views (src/src/tiled_tensor.rs)           *)
(***************************************************************************)
TileIterNew(tile_shape, full_shape) ==
  [tile_shape |-> tile_shape,
   full_shape |-> full_shape,
   current    |-> [d \in 1..Len(tile_shape) |-> 0],
   done       |-> FALSE]

\* a next() that forgets to clip the boundary tile
TileOfUnclipped(it) == [start |-> it.current, len |-> it.tile_shape]

\* the tile next() builds: start = current, len[d] = min(tile[d], full[d] - start[d])
TileOf(it) ==
  [start |-> it.current,
   len   |-> [d \in 1..Len(it.current) |->
                Min(it.tile_shape[d], it.full_shape[d] - it.current[d])]]

\* the counter loop of TileIter::next, d from the last dimension down to the first
RECURSIVE AdvanceLoop(_, _)
AdvanceLoop(it, d) ==
  IF d = 0 THEN it
  ELSE LET c == it.current[d] + it.tile_shape[d]
       IN IF c < it.full_shape[d]
          THEN [it EXCEPT !.current[d] = c]
          ELSE AdvanceLoop([it EXCEPT !.current[d] = 0,
                                      !.done = it.done \/ d = 1], d - 1)

Advance(it) == AdvanceLoop(it, Len(it.current))

\* TiledTensorView::new / TiledTensorViewMut::new: the iterator it seeds
TiledNew(base, tiler) ==
  LET flat == flat_divide(base.layout, tiler)
      t    == flat_len(tiler.shape)
  IN IF ~flat.ok \/ t > Len(flat.val.shape.v) THEN Panic
     ELSE Ok(TileIterNew(SubSeq(flat.val.shape.v, 1, t), flatten(base.layout.shape)))

(***************************************************************************)
(* State.                                                                   *)
(*   tile_iter : the TileIter of the tiled view (tile_shape, full_shape,    *)
(*               current, done)                                             *)
(*   base      : the base TensorViewMut of the tiled view                   *)
(*   data      : the Tensor's backing buffer, offsets 0..len-1              *)
(*   sub       : the sub-view of the tile yielded last                      *)
(*   pc        : "iter" (the consumer is about to call next), "write" (it   *)
(*               holds a tile and writes it), "none" (next returned None)   *)
(*   tiles     : history, the tiles yielded so far                          *)
(*   nwrites   : history, how often each buffer cell was written           *)
(*   oob       : history, a write fell outside the buffer                   *)
(*   calls     : history, the number of next() calls                        *)
(***************************************************************************)
VARIABLES tile_iter, base, data, sub, pc, tiles, nwrites, oob, calls

tiledVars == <<tile_iter, base, data, sub, pc, tiles, nwrites, oob, calls>>

(***************************************************************************)
(*   layout    : a Layout built by Layout::new with one of the two policies *)
(*   policy    : history, the policy layout was built with                  *)
(*   view      : a view [ptr, layout] derived from the view of layout by    *)
(*               subview (its layout comes from with_shape_stride)          *)
(*   call      : the last call made on layout: [op, arg, ret]               *)
(***************************************************************************)
VARIABLES layout, policy, view, call

layoutVars == <<layout, policy, view, call>>

(***************************************************************************)
(*   grid_iter : a LayoutIterator (shape, current, done)                    *)
(*   grid_of   : history, [which, layout, tiler]: the tile_iter or          *)
(*               rest_iter call that built grid_iter                        *)
(*   items     : history, the index vectors grid_iter yielded so far        *)
(*   gpc       : "iter" while next() has not returned None, then "none"     *)
(***************************************************************************)
VARIABLES grid_iter, grid_of, items, gpc

gridVars == <<grid_iter, grid_of, items, gpc>>

(***************************************************************************)
(*   tensor    : a Tensor [data, layout], data a function from 0..len-1;    *)
(*               before Tensor::new ran, the arguments it will be given     *)
(*   tview     : a view [ptr, layout] of tensor: as_view_mut() or a         *)
(*               sub-view derived from it                                   *)
(*   tparent   : history, the view tview was derived from                   *)
(*   tcall     : the last call made: [op, ...]                              *)
(*   tpc       : "new" before Tensor::new, "live" after it returned,        *)
(*               "panicked" after a call failed                             *)
(***************************************************************************)
VARIABLES tensor, tview, tparent, tcall, tpc

tensorVars == <<tensor, tview, tparent, tcall, tpc>>

(***************************************************************************)
(*   div_layout, div_tiler : the two layouts a division is called with      *)
(*   div_call  : the last division called on them: [op, ret]                *)
(***************************************************************************)
VARIABLES div_layout, div_tiler, div_call

divideVars == <<div_layout, div_tiler, div_call>>

(***************************************************************************)
(*   gemm_a, gemm_b, gemm_c : the three operand views of gemm_f32           *)
(*   blas_calls : the calls the backend received: [ta, tb, m, n, k, lda,    *)
(*               ldb, ldc]                                                  *)
(*   gemm_pc   : "ready" before gemm_f32, "returned" or "panicked" after    *)
(***************************************************************************)
VARIABLES gemm_a, gemm_b, gemm_c, blas_calls, gemm_pc

gemmVars == <<gemm_a, gemm_b, gemm_c, blas_calls, gemm_pc>>

(***************************************************************************)
(*   copy_src, copy_dst : the source and destination views of tensor_copy   *)
(*   src_data, dst_data : the buffers the two views point into              *)
(*   copy_pc   : "ready" before tensor_copy, "returned" or "panicked" after *)
(***************************************************************************)
VARIABLES copy_src, copy_dst, src_data, dst_data, copy_pc

copyVars == <<copy_src, copy_dst, src_data, dst_data, copy_pc>>

(***************************************************************************)
(*   blas_cell : the static BLAS, a OnceLock: empty, or the BlasSymbols     *)
(*               [lib, handle] it was set to                                *)
(*   blas_init : the thread that runs the closure of get_or_init, or 0      *)
(*   blas_env  : the process environment, [loads, syms]: the libraries      *)
(*               Library::new can load and those that export cblas_sgemm    *)
(*   thr       : per thread [pc, lib, handle]: where it stands in           *)
(*               GenericBlas::gemm_f32 and the Library its closure holds    *)
(*   blas_hist : history: the calls started, the Library::new attempts,     *)
(*               the handles open, how often the cell was set, the handles  *)
(*               the kernel was invoked through, the calls that returned    *)
(***************************************************************************)
VARIABLES blas_cell, blas_init, blas_env, thr, blas_hist

blasVars == <<blas_cell, blas_init, blas_env, thr, blas_hist>>

vars == <<tiledVars, layoutVars, gridVars, tensorVars, divideVars, gemmVars, copyVars, blasVars>>

\* the value of a cell no tile has written yet
Unwritten == 0 - 1

Extents == 1..MaxExtent

Ranks == 0..MaxRank

Dims == 1..MaxDim

\* row-major rank of the index vector x in the box ext, by Horner's rule:
\* (x0 * N1 + x1) * N2 + x2 ...; in two dimensions row * N + col
RECURSIVE FlatIndexLoop(_, _, _, _)
FlatIndexLoop(x, ext, d, acc) ==
  IF d > Len(x) THEN acc ELSE FlatIndexLoop(x, ext, d + 1, acc * ext[d] + x[d])

FlatIndex(x, ext) == FlatIndexLoop(x, ext, 1, 0)

\* the k-th index vector of the box ext in nested-loop order (last index fastest)
RECURSIVE UnrankLoop(_, _, _, _)
UnrankLoop(k, ext, d, x) ==
  IF d = 0 THEN x
  ELSE UnrankLoop(k \div ext[d], ext, d - 1, [x EXCEPT ![d] = k % ext[d]])

Unrank(k, ext) == UnrankLoop(k, ext, Len(ext), [d \in 1..Len(ext) |-> 0])

VecAdd(a, b) == [d \in 1..Len(a) |-> a[d] + b[d]]

\* the consumer's loop over the local coordinates of one tile, in loop order:
\* *view.get_mut(c) = flat index of (start + c) in the whole tensor
RECURSIVE WriteLoop(_, _, _, _)
WriteLoop(st, tv, tile, k) ==
  IF k = SeqProduct(tile.len) THEN st
  ELSE LET c    == Unrank(k, tile.len)
           addr == get(tv, int(c))
           val  == FlatIndex(VecAdd(tile.start, c), tile_iter.full_shape)
       IN IF ~addr.ok \/ addr.val \notin DOMAIN st.data
          THEN WriteLoop([st EXCEPT !.oob = TRUE], tv, tile, k + 1)
          ELSE WriteLoop([st EXCEPT !.data[addr.val] = val,
                                    !.nwrites[addr.val] = @ + 1], tv, tile, k + 1)

NoView == [ptr |-> 0, layout |-> row_major(int(<<>>))]

\* the values of the variables of a machine that a specification does not run
TiledIdle ==
  /\ tile_iter = TileIterNew(<<>>, <<>>)
  /\ base = NoView
  /\ data = <<>>
  /\ nwrites = <<>>
  /\ sub = NoView
  /\ pc = "idle"
  /\ tiles = <<>>
  /\ oob = FALSE
  /\ calls = 0

LayoutIdle ==
  /\ layout = NoView.layout
  /\ policy = "RowMajor"
  /\ view = NoView
  /\ call = [op |-> "idle"]

GridIdle ==
  /\ grid_iter = [shape |-> <<>>, current |-> <<>>, done |-> TRUE]
  /\ grid_of = [which |-> "idle"]
  /\ items = <<>>
  /\ gpc = "idle"

TensorIdle ==
  /\ tensor = [data |-> <<>>, layout |-> NoView.layout]
  /\ tview = NoView
  /\ tparent = NoView
  /\ tcall = [op |-> "idle"]
  /\ tpc = "idle"

DivideIdle ==
  /\ div_layout = NoView.layout
  /\ div_tiler = NoView.layout
  /\ div_call = [op |-> "idle"]

GemmIdle ==
  /\ gemm_a = NoView
  /\ gemm_b = NoView
  /\ gemm_c = NoView
  /\ blas_calls = <<>>
  /\ gemm_pc = "idle"

CopyIdle ==
  /\ copy_src = NoView
  /\ copy_dst = NoView
  /\ src_data = <<>>
  /\ dst_data = <<>>
  /\ copy_pc = "idle"

\* the OnceLock before get_or_init has set it
EmptyCell == [set |-> FALSE, lib |-> "", handle |-> 0]

BlasIdle ==
  /\ blas_cell = EmptyCell
  /\ blas_init = 0
  /\ blas_env = [loads |-> {}, syms |-> {}]
  /\ thr = <<>>
  /\ blas_hist = [calls |-> 0, tried |-> <<>>, live |-> {}, sets |-> 0,
                  kernel |-> <<>>, returned |-> 0]

\* the machines the first three specifications do not run
OthersIdle == TensorIdle /\ DivideIdle /\ GemmIdle /\ CopyIdle /\ BlasIdle

\* Tensor::new(data, Layout::row_major(Shape (full))), as_view_mut, and
\* TiledTensorViewMut::new(view, Layout::row_major(Shape (tile)))
TiledInit ==
  \E r \in Ranks : \E tile \in SeqsOfLen(Extents, r), full \in SeqsOfLen(Extents, r) :
    LET l0    == row_major(int(full))
        v0    == [ptr |-> 0, layout |-> l0]
        tiled == TiledNew(v0, row_major(int(tile)))
    IN /\ LayoutIdle
       /\ GridIdle
       /\ OthersIdle
       /\ tiled.ok
       /\ tile_iter = tiled.val
       /\ base = v0
       /\ data = [k \in 0..size(l0.shape) - 1 |-> Unwritten]
       /\ nwrites = [k \in 0..size(l0.shape) - 1 |-> 0]
       /\ sub = NoView
       /\ pc = "iter"
       /\ tiles = <<>>
       /\ oob = FALSE
       /\ calls = 0

\* tiles_mut().next() on an iterator that is not done: the tile and its sub-view
NextSome ==
  /\ pc = "iter"
  /\ calls < SeqProduct(tile_iter.full_shape) + MaxExtraCalls
  /\ ~tile_iter.done
  /\ LET tile == TileOf(tile_iter)
         v    == subview(base, int(tile.start), int(tile.len))
     IN /\ v.ok
        /\ sub' = v.val
        /\ tiles' = Append(tiles, tile)
  /\ tile_iter' = Advance(tile_iter)
  /\ pc' = "write"
  /\ calls' = calls + 1
  /\ UNCHANGED <<base, data, nwrites, oob, layoutVars, gridVars, tensorVars, divideVars, gemmVars, copyVars, blasVars>>

\* tiles_mut().next() on a done iterator: None
NextNone ==
  /\ pc \in {"iter", "none"}
  /\ calls < SeqProduct(tile_iter.full_shape) + MaxExtraCalls
  /\ tile_iter.done
  /\ pc' = "none"
  /\ calls' = calls + 1
  /\ UNCHANGED <<tile_iter, base, data, sub, tiles, nwrites, oob, layoutVars, gridVars, tensorVars, divideVars, gemmVars, copyVars, blasVars>>

\* the consumer writes every element of the tile it holds through the sub-view
WriteTile ==
  /\ pc = "write"
  /\ LET st == WriteLoop([data |-> data, nwrites |-> nwrites, oob |-> oob],
                         sub, tiles[Len(tiles)], 0)
     IN /\ data' = st.data
        /\ nwrites' = st.nwrites
        /\ oob' = st.oob
  /\ pc' = "iter"
  /\ UNCHANGED <<tile_iter, base, sub, tiles, calls, layoutVars, gridVars, tensorVars, divideVars, gemmVars, copyVars, blasVars>>

TiledNext == NextSome \/ NextNone \/ WriteTile

Spec == TiledInit /\ [][TiledNext]_vars

(***************************************************************************)
(* The layout machine: a Layout is built over a shape with one of the two   *)
(* policies; idx2crd, crd2idx, cosize, subview and == are then called on it.*)
(***************************************************************************)
\* shape trees holding n >= 1 extents: the leaf of n extents, and every branch
\* of two or more such trees (nested to any depth n allows)
RECURSIVE Trees(_)
RECURSIVE Forests(_)
RECURSIVE Splits(_)
\* sequences of two or more trees holding n extents in all
Splits(n) ==
  UNION { { <<t>> \o f : t \in Trees(m), f \in Forests(n - m) } : m \in 1..n - 1 }

\* sequences of one or more trees holding n extents in all
Forests(n) == { <<t>> : t \in Trees(n) } \cup Splits(n)

Trees(n) == { int(v) : v \in SeqsOfLen(Dims, n) } \cup { tup(f) : f \in Splits(n) }

\* the shapes layouts are built over: up to MaxLeaves extents in all, and the
\* two empty tuples
Shapes == UNION { Trees(n) : n \in 1..MaxLeaves } \cup {int(<<>>), tup(<<>>)}

\* the coordinates in range of a shape: congruent trees, 0 <= c < extent
RECURSIVE Coords(_)
RECURSIVE CoordForests(_)
CoordForests(v) ==
  IF v = <<>> THEN {<<>>}
  ELSE { <<c>> \o f : c \in Coords(Head(v)), f \in CoordForests(Tail(v)) }

Coords(shape) ==
  IF shape.k = "Int" THEN { int(x) : x \in Box(shape.v) }
  ELSE { tup(f) : f \in CoordForests(shape.t) }

\* the sub-shapes of a shape: congruent trees, 1 <= extent <= extent of shape
RECURSIVE SubShapes(_)
RECURSIVE SubShapeForests(_)
SubShapeForests(v) ==
  IF v = <<>> THEN {<<>>}
  ELSE { <<c>> \o f : c \in SubShapes(Head(v)), f \in SubShapeForests(Tail(v)) }

SubShapes(shape) ==
  IF shape.k = "Int"
  THEN { int(x) : x \in { y \in [1..Len(shape.v) -> 1..SeqMax(shape.v)] :
                            \A d \in 1..Len(shape.v) : y[d] <= shape.v[d] } }
  ELSE { tup(f) : f \in SubShapeForests(shape.t) }

\* a - b, leaf by leaf, on congruent trees
RECURSIVE TreeMinus(_, _)
TreeMinus(a, b) ==
  IF a.k = "Int" THEN int([i \in 1..Len(a.v) |-> a.v[i] - b.v[i]])
  ELSE tup([i \in 1..Len(a.t) |-> TreeMinus(a.t[i], b.t[i])])

DropLast(t) ==
  IF t.k = "Int" THEN int(SubSeq(t.v, 1, Len(t.v) - 1))
  ELSE tup(SubSeq(t.t, 1, Len(t.t) - 1))

\* the coordinates crd2idx is called with: those in range, and for each its
\* flattened leaf form and its form without the last top-level element
CrdInputs(shape) ==
  LET cs == Coords(shape)
  IN cs \cup { int(flatten(c)) : c \in cs }
        \cup { DropLast(c) : c \in { x \in cs : len(x) >= 1 } }

LayoutInit ==
  \E p \in {"RowMajor", "ColMajor"}, shape \in Shapes :
    /\ TiledIdle
    /\ GridIdle
    /\ OthersIdle
    /\ layout = LayoutNew(p, shape)
    /\ policy = p
    /\ view = [ptr |-> 0, layout |-> LayoutNew(p, shape)]
    /\ call = [op |-> "new"]

\* a Layout is immutable and its methods are pure: each behaviour makes one
\* call on the layout it built (and may compare the sub-view's layout after)

\* the loop of tests::row_major_roundtrip over every linear index of the layout:
\* crd = idx2crd(i); idx = crd2idx(crd)
RoundTrip(l, i) ==
  LET crd == idx2crd(l, i)
  IN IF ~crd.ok THEN [ok |-> FALSE, crd |-> int(<<>>), idx |-> 0]
     ELSE LET idx == crd2idx(l, crd.val)
          IN [ok |-> idx.ok, crd |-> crd.val, idx |-> idx.val]

RoundTripCall ==
  /\ call.op = "new"
  /\ call' = [op |-> "roundtrip",
              ret |-> [i \in 0..size(layout.shape) - 1 |-> RoundTrip(layout, i)]]
  /\ UNCHANGED <<layout, policy, view, tiledVars, gridVars, tensorVars, divideVars, gemmVars, copyVars, blasVars>>

Crd2IdxCall ==
  \E c \in CrdInputs(layout.shape) :
    /\ call.op = "new"
    /\ call' = [op |-> "crd2idx", arg |-> c, ret |-> crd2idx(layout, c)]
    /\ UNCHANGED <<layout, policy, view, tiledVars, gridVars, tensorVars, divideVars, gemmVars, copyVars, blasVars>>

CosizeCall ==
  /\ call.op = "new"
  /\ call' = [op |-> "cosize", ret |-> cosize(layout)]
  /\ UNCHANGED <<layout, policy, view, tiledVars, gridVars, tensorVars, divideVars, gemmVars, copyVars, blasVars>>

\* as_view().subview(start, subshape) for the sub-view that ends at the far
\* corner of the parent: start = shape - subshape
SubviewCall ==
  \E subshape \in SubShapes(layout.shape) :
    LET start == TreeMinus(layout.shape, subshape)
        v     == subview([ptr |-> 0, layout |-> layout], start, subshape)
    IN /\ call.op = "new"
       /\ v.ok
       /\ view' = v.val
       /\ call' = [op |-> "subview", arg |-> start, ret |-> Ok(TRUE)]
       /\ UNCHANGED <<layout, policy, tiledVars, gridVars, tensorVars, divideVars, gemmVars, copyVars, blasVars>>

\* layout == view.layout
EqCall ==
  /\ call.op = "subview"
  /\ call' = [op |-> "eq", ret |-> LayoutEq(layout, view.layout)]
  /\ UNCHANGED <<layout, policy, view, tiledVars, gridVars, tensorVars, divideVars, gemmVars, copyVars, blasVars>>

LayoutNext == RoundTripCall \/ SubviewCall

SpecLayout == LayoutInit /\ [][LayoutNext]_vars

LayoutCallsNext == Crd2IdxCall \/ CosizeCall \/ SubviewCall \/ EqCall

SpecLayoutCalls == LayoutInit /\ [][LayoutCallsNext]_vars

\* view.layout().idx2crd(i) for every linear index i from 0 to MaxPast past the
\* size of the view's layout; view is the whole view or a sub-view of it
Idx2CrdRangeCall ==
  /\ call.op \in {"new", "subview"}
  /\ call' = [op |-> "idx2crd", of |-> call.op,
              ret |-> [i \in 0..size(view.layout.shape) + MaxPast |-> idx2crd(view.layout, i)]]
  /\ UNCHANGED <<layout, policy, view, tiledVars, gridVars, tensorVars, divideVars, gemmVars, copyVars, blasVars>>

\* layout.crd2idx(c) for every coordinate c in range of the shape
Crd2IdxAllCall ==
  /\ call.op = "new"
  /\ call' = [op |-> "crd2idx_all",
              ret |-> [c \in Coords(layout.shape) |-> crd2idx(layout, c)]]
  /\ UNCHANGED <<layout, policy, view, tiledVars, gridVars, tensorVars, divideVars, gemmVars, copyVars, blasVars>>

Idx2CrdNext == SubviewCall \/ Idx2CrdRangeCall

SpecIdx2Crd == LayoutInit /\ [][Idx2CrdNext]_vars

Crd2IdxNext == Crd2IdxAllCall

SpecCrd2Idx == LayoutInit /\ [][Crd2IdxNext]_vars

(***************************************************************************)
(* The grid machine: layout.tile_iter(tiler) or layout.rest_iter(tiler) is  *)
(* built for a row-major layout and a row-major tiler over leaf shapes of   *)
(* the same rank, and next() is called until it returns None.               *)
(***************************************************************************)
GridRanks == 1..MaxRank

GridInit ==
  \E r \in GridRanks :
    \E L \in SeqsOfLen(Extents, r), T \in SeqsOfLen(Extents, r), which \in {"tile", "rest"} :
      LET l0    == row_major(int(L))
          tiler == row_major(int(T))
          it    == IF which = "tile" THEN LayoutTileIter(l0, tiler)
                   ELSE LayoutRestIter(l0, tiler)
      IN /\ it.ok
         /\ TiledIdle
         /\ LayoutIdle
         /\ OthersIdle
         /\ grid_iter = it.val
         /\ grid_of = [which |-> which, layout |-> L, tiler |-> T]
         /\ items = <<>>
         /\ gpc = "iter"

\* LayoutIterator::next on an iterator that is not done: Some(current)
GridNextSome ==
  /\ gpc = "iter"
  /\ ~grid_iter.done
  /\ items' = Append(items, grid_iter.current)
  /\ grid_iter' = GridAdvance(grid_iter)
  /\ UNCHANGED <<grid_of, gpc, tiledVars, layoutVars, tensorVars, divideVars, gemmVars, copyVars, blasVars>>

\* LayoutIterator::next on a done iterator: None
GridNextNone ==
  /\ gpc \in {"iter", "none"}
  /\ grid_iter.done
  /\ gpc' = "none"
  /\ UNCHANGED <<grid_iter, grid_of, items, tiledVars, layoutVars, tensorVars, divideVars, gemmVars, copyVars, blasVars>>

GridNext == GridNextSome \/ GridNextNone

SpecGrid == GridInit /\ [][GridNext]_vars

(***************************************************************************)
(* The tensor machine: Tensor::new is called with a buffer and a layout;    *)
(* the tensor's view is taken, sub-views are derived from it (by subview or *)
(* by subview_2d) and an element is written through a view.                 *)
(***************************************************************************)
\* the number of elements of a buffer
DataLen(d) == Cardinality(DOMAIN d)

\* a Tensor::new without the length assertion
TensorNewUnchecked(d, l) == Ok([data |-> d, layout |-> l])

\* Tensor::new: assert_eq!(data.len(), layout.size())
TensorNew(d, l) ==
  IF DataLen(d) # size(l.shape) THEN Panic ELSE Ok([data |-> d, layout |-> l])

\* Tensor::as_view / as_view_mut: the base of the buffer and a clone of the layout
as_view(t) == [ptr |-> 0, layout |-> t.layout]

\* TensorView::subview_2d / TensorViewMut::subview_2d_mut
subview_2d(v, r0, c0, r, c) ==
  subview(v, tup(<<int(<<r0>>), int(<<c0>>)>>), tup(<<int(<<r>>), int(<<c>>)>>))

\* the shapes tensors are built over: up to MaxRank extents in all
TensorShapes == UNION { Trees(n) : n \in 1..MaxRank } \cup {int(<<>>), tup(<<>>)}

\* the coordinate of a shape with c at every position
RECURSIVE ConstCoord(_, _)
ConstCoord(shape, c) ==
  IF shape.k = "Int" THEN int([i \in 1..Len(shape.v) |-> c])
  ELSE tup([i \in 1..Len(shape.t) |-> ConstCoord(shape.t[i], c)])

\* a + b, leaf by leaf, on congruent trees
RECURSIVE TreePlus(_, _)
TreePlus(a, b) ==
  IF a.k = "Int" THEN int([i \in 1..Len(a.v) |-> a.v[i] + b.v[i]])
  ELSE tup([i \in 1..Len(a.t) |-> TreePlus(a.t[i], b.t[i])])

\* the start coordinates a sub-view of subshape is taken at: the origin and the
\* far corner, where the sub-view ends at the end of the view
Starts(shape, subshape) == {ConstCoord(shape, 0), TreeMinus(shape, subshape)}

\* the buffers Tensor::new is called with: of the size of the layout, one
\* element shorter and one element longer
TensorInit ==
  \E p \in {"RowMajor", "ColMajor"}, shape \in TensorShapes :
    \E n \in {size(shape) - 1, size(shape), size(shape) + 1} :
      /\ TiledIdle
      /\ LayoutIdle
      /\ GridIdle
      /\ DivideIdle
      /\ GemmIdle
      /\ CopyIdle
      /\ BlasIdle
      /\ tensor = [data |-> [k \in 0..n - 1 |-> 0], layout |-> LayoutNew(p, shape)]
      /\ tview = NoView
      /\ tparent = NoView
      /\ tcall = [op |-> "none"]
      /\ tpc = "new"

TensorNewCall ==
  /\ tpc = "new"
  /\ LET t == TensorNew(tensor.data, tensor.layout)
     IN /\ tpc' = IF t.ok THEN "live" ELSE "panicked"
        /\ tcall' = [op |-> "new"]
        /\ UNCHANGED <<tensor, tview, tparent>>
  /\ UNCHANGED <<tiledVars, layoutVars, gridVars, divideVars, gemmVars, copyVars, blasVars>>

AsViewCall ==
  /\ tpc = "live"
  /\ tcall.op = "new"
  /\ tview' = as_view(tensor)
  /\ tcall' = [op |-> "as_view"]
  /\ UNCHANGED <<tensor, tparent, tpc>>
  /\ UNCHANGED <<tiledVars, layoutVars, gridVars, divideVars, gemmVars, copyVars, blasVars>>

\* tview.subview(start, subshape) / subview_mut, on the tensor's view or on a
\* sub-view of it, with the sub-view inside the view
TensorSubviewCall ==
  /\ tpc = "live"
  /\ \/ tcall.op = "as_view"
     \/ tcall.op = "subview" /\ tparent = as_view(tensor)
  /\ \E subshape \in SubShapes(tview.layout.shape) :
       \E start \in Starts(tview.layout.shape, subshape) :
         LET v == subview(tview, start, subshape)
         IN /\ tparent' = tview
            /\ tcall' = [op |-> "subview", start |-> start, ok |-> v.ok,
                         subshape |-> subshape]
            /\ tview' = IF v.ok THEN v.val ELSE tview
            /\ tpc' = IF v.ok THEN "live" ELSE "panicked"
  /\ UNCHANGED tensor
  /\ UNCHANGED <<tiledVars, layoutVars, gridVars, divideVars, gemmVars, copyVars, blasVars>>

\* tview.subview_2d(r0, c0, r, c) / subview_2d_mut on the tensor's view, when
\* its layout has two flattened dimensions, with the sub-view inside the view
Subview2DCall ==
  /\ tpc = "live"
  /\ tcall.op = "as_view"
  /\ flat_len(tview.layout.shape) = 2
  /\ LET ext == flatten(tview.layout.shape)
     IN \E r \in 1..ext[1], c \in 1..ext[2] :
          \E r0 \in {0, ext[1] - r}, c0 \in {0, ext[2] - c} :
            LET v == subview_2d(tview, r0, c0, r, c)
            IN /\ tparent' = tview
               /\ tcall' = [op |-> "subview_2d", start |-> int(<<r0, c0>>), ok |-> v.ok,
                            subshape |-> int(<<r, c>>)]
               /\ tview' = IF v.ok THEN v.val ELSE tview
               /\ tpc' = IF v.ok THEN "live" ELSE "panicked"
  /\ UNCHANGED tensor
  /\ UNCHANGED <<tiledVars, layoutVars, gridVars, divideVars, gemmVars, copyVars, blasVars>>

\* *tview.get_mut(c) = 42 at the last coordinate of the view; a write outside
\* the buffer is recorded and changes nothing
TensorWriteCall ==
  /\ tpc = "live"
  /\ tcall.op \in {"as_view", "subview", "subview_2d"}
  /\ LET c    == TreeMinus(tview.layout.shape, ConstCoord(tview.layout.shape, 1))
         addr == get(tview, c)
     IN IF ~addr.ok
        THEN /\ tpc' = "panicked"
             /\ tcall' = [op |-> "write", at |-> 0, oob |-> FALSE]
             /\ UNCHANGED tensor
        ELSE IF addr.val \notin DOMAIN tensor.data
        THEN /\ tcall' = [op |-> "write", at |-> addr.val, oob |-> TRUE]
             /\ UNCHANGED <<tensor, tpc>>
        ELSE /\ tensor' = [tensor EXCEPT !.data[addr.val] = 42]
             /\ tcall' = [op |-> "write", at |-> addr.val, oob |-> FALSE]
             /\ UNCHANGED tpc
  /\ UNCHANGED <<tview, tparent>>
  /\ UNCHANGED <<tiledVars, layoutVars, gridVars, divideVars, gemmVars, copyVars, blasVars>>

TensorNext ==
  TensorNewCall \/ AsViewCall \/ TensorSubviewCall \/ Subview2DCall \/ TensorWriteCall

SpecTensor == TensorInit /\ [][TensorNext]_vars

(***************************************************************************)
(* The divide machine: one of the four divisions of layout_algebra.rs is    *)
(* called with a layout and a row-major tiler over congruent shapes.        *)
(***************************************************************************)
\* the tiler shapes congruent to a shape
RECURSIVE TilerShapes(_)
RECURSIVE TilerForests(_)
TilerForests(v) ==
  IF v = <<>> THEN {<<>>}
  ELSE { <<c>> \o f : c \in TilerShapes(Head(v)), f \in TilerForests(Tail(v)) }

TilerShapes(shape) ==
  IF shape.k = "Int" THEN { int(x) : x \in SeqsOfLen(Dims, Len(shape.v)) }
  ELSE { tup(f) : f \in TilerForests(shape.t) }

DivideInit ==
  \E p \in {"RowMajor", "ColMajor"}, shape \in UNION { Trees(n) : n \in 1..MaxRank } :
    \E tshape \in TilerShapes(shape) :
      /\ TiledIdle
      /\ LayoutIdle
      /\ GridIdle
      /\ TensorIdle
      /\ GemmIdle
      /\ CopyIdle
      /\ BlasIdle
      /\ div_layout = LayoutNew(p, shape)
      /\ div_tiler = row_major(tshape)
      /\ div_call = [op |-> "none"]

LogicalDivideCall ==
  /\ div_call.op = "none"
  /\ div_call' = [op |-> "logical_divide", ret |-> logical_divide(div_layout, div_tiler)]
  /\ UNCHANGED <<div_layout, div_tiler, tiledVars, layoutVars, gridVars, tensorVars, gemmVars, copyVars, blasVars>>

ZippedDivideCall ==
  /\ div_call.op = "none"
  /\ div_call' = [op |-> "zipped_divide", ret |-> zipped_divide(div_layout, div_tiler)]
  /\ UNCHANGED <<div_layout, div_tiler, tiledVars, layoutVars, gridVars, tensorVars, gemmVars, copyVars, blasVars>>

TiledDivideCall ==
  /\ div_call.op = "none"
  /\ div_call' = [op |-> "tiled_divide", ret |-> tiled_divide(div_layout, div_tiler)]
  /\ UNCHANGED <<div_layout, div_tiler, tiledVars, layoutVars, gridVars, tensorVars, gemmVars, copyVars, blasVars>>

FlatDivideCall ==
  /\ div_call.op = "none"
  /\ div_call' = [op |-> "flat_divide", ret |-> flat_divide(div_layout, div_tiler)]
  /\ UNCHANGED <<div_layout, div_tiler, tiledVars, layoutVars, gridVars, tensorVars, gemmVars, copyVars, blasVars>>

DivideNext == LogicalDivideCall \/ ZippedDivideCall \/ TiledDivideCall \/ FlatDivideCall

SpecDivide == DivideInit /\ [][DivideNext]_vars

(***************************************************************************)
(* The gemm machine: gemm_f32 is called once on three operand views.  The   *)
(* operands are the views of three tensors of conformable shapes (M,K),     *)
(* (K,N), (M,N), each row-major or column-major; or two such row-major      *)
(* views and, in place of the third, a sub-view of a tensor of any shape or  *)
(* a view whose layout was built from explicit strides.                     *)
(***************************************************************************)
\* the two-dimensional shape with extents r and c, as a leaf or as a branch
Shape2D(form, r, c) ==
  IF form = "leaf" THEN int(<<r, c>>) ELSE tup(<<int(<<r>>), int(<<c>>)>>)

\* Tensor::new(data, Layout::new::<P>(shape)).as_view()
Operand(form, p, r, c) ==
  as_view(TensorNew([i \in 0..(r * c - 1) |-> 0], LayoutNew(p, Shape2D(form, r, c))).val)

\* the sub-views of such views that end at the far corner of their parent
SubOperands(form) ==
  UNION { { subview(Operand(form, p, r0, c0),
                    Shape2D(form, r0 - r, c0 - c), Shape2D(form, r, c)).val :
            r \in 1..r0, c \in 1..c0 } :
          p \in {"RowMajor", "ColMajor"}, r0 \in Dims, c0 \in Dims }

\* views over Layout::with_shape_stride(shape, stride), the crate's constructor
\* of a layout from explicit strides
StridedOperands(form) ==
  { [ptr |-> 0, layout |-> with_shape_stride(Shape2D(form, r, c), Shape2D(form, s0, s1)).val] :
    r \in Dims, c \in Dims, s0 \in Dims, s1 \in Dims }

GemmInit ==
  \E form \in {"leaf", "branch"}, M \in Dims, K \in Dims, N \in Dims :
    /\ TiledIdle
    /\ LayoutIdle
    /\ GridIdle
    /\ TensorIdle
    /\ DivideIdle
    /\ CopyIdle
    /\ BlasIdle
    /\ blas_calls = <<>>
    /\ gemm_pc = "ready"
    /\ \/ \E pa \in {"RowMajor", "ColMajor"}, pb \in {"RowMajor", "ColMajor"},
             pc0 \in {"RowMajor", "ColMajor"} :
            /\ gemm_a = Operand(form, pa, M, K)
            /\ gemm_b = Operand(form, pb, K, N)
            /\ gemm_c = Operand(form, pc0, M, N)
       \/ \E odd \in {"a", "b", "c"}, v \in SubOperands(form) \cup StridedOperands(form) :
            /\ gemm_a = IF odd = "a" THEN v ELSE Operand(form, "RowMajor", M, K)
            /\ gemm_b = IF odd = "b" THEN v ELSE Operand(form, "RowMajor", K, N)
            /\ gemm_c = IF odd = "c" THEN v ELSE Operand(form, "RowMajor", M, N)

\* gemm_f32(backend, a, b, c) that reaches the backend
GemmReturns ==
  /\ gemm_pc = "ready"
  /\ LET r == gemm_f32(gemm_a, gemm_b, gemm_c)
     IN /\ r.ok
        /\ blas_calls' = Append(blas_calls, r.val)
  /\ gemm_pc' = "returned"
  /\ UNCHANGED <<gemm_a, gemm_b, gemm_c>>
  /\ UNCHANGED <<tiledVars, layoutVars, gridVars, tensorVars, divideVars, copyVars, blasVars>>

\* gemm_f32(backend, a, b, c) that panics before the backend is called
GemmPanics ==
  /\ gemm_pc = "ready"
  /\ ~gemm_f32(gemm_a, gemm_b, gemm_c).ok
  /\ gemm_pc' = "panicked"
  /\ UNCHANGED <<gemm_a, gemm_b, gemm_c, blas_calls>>
  /\ UNCHANGED <<tiledVars, layoutVars, gridVars, tensorVars, divideVars, copyVars, blasVars>>

GemmNext == GemmReturns \/ GemmPanics

SpecGemm == GemmInit /\ [][GemmNext]_vars

(***************************************************************************)
(* The copy machine (src/src/copy.rs): tensor_copy(src, dst) is called once *)
(* on a view of a source tensor and a view of a destination tensor.  Each   *)
(* view is the view of a whole tensor or a sub-view that ends at the far    *)
(* corner of its tensor.  A buffer is a function from offsets to values; a  *)
(* view's ptr is the offset of its first element.                           *)
(***************************************************************************)
\* copy_recursive: the coordinate is Tuple::Int(idx), one index for each of the
\* shape's len() top-level positions, bounded by the flattened extents; st is
\* [ok, data]: whether a get panicked, and dst's buffer so far
RECURSIVE copy_recursive(_, _, _, _, _, _)
RECURSIVE CopyLoop(_, _, _, _, _, _, _)
CopyLoop(src, dst, sdata, st, dim, idx, i) ==
  IF ~st.ok \/ i >= flatten(src.layout.shape)[dim + 1] THEN st
  ELSE CopyLoop(src, dst, sdata,
                copy_recursive(src, dst, sdata, st, dim + 1, Append(idx, i)),
                dim, idx, i + 1)

copy_recursive(src, dst, sdata, st, dim, idx) ==
  IF dim = len(src.layout.shape)
  THEN LET from == get(src, int(idx))
           to   == get(dst, int(idx))
       IN IF ~from.ok \/ ~to.ok THEN [st EXCEPT !.ok = FALSE]
          ELSE [st EXCEPT !.data[to.val] = sdata[from.val]]
  ELSE CopyLoop(src, dst, sdata, st, dim, idx, 0)

\* tensor_copy: the shape assertion, the copy_nonoverlapping of size() cells
\* when both layouts report contiguous, else copy_recursive
tensor_copy(src, dst, sdata, ddata) ==
  IF ~TupleEq(src.layout.shape, dst.layout.shape) THEN [ok |-> FALSE, data |-> ddata]
  ELSE IF is_contiguous(src.layout) /\ is_contiguous(dst.layout)
  THEN LET n == size(src.layout.shape)
       IN [ok   |-> TRUE,
           data |-> [k \in DOMAIN ddata |->
                       IF k >= dst.ptr /\ k < dst.ptr + n
                       THEN sdata[src.ptr + (k - dst.ptr)] ELSE ddata[k]]]
  ELSE copy_recursive(src, dst, sdata, [ok |-> TRUE, data |-> ddata], 0, <<>>)

\* the view of a whole tensor built with Layout::new::<p>(shape), or its
\* sub-view of shape subshape that ends at the far corner
CopyView(kind, p, shape, subshape) ==
  LET whole == as_view(TensorNew([k \in 0..size(shape) - 1 |-> 0], LayoutNew(p, shape)).val)
  IN IF kind = "whole" THEN whole
     ELSE subview(whole, TreeMinus(shape, subshape), subshape).val

CopyInit ==
  \E p1 \in {"RowMajor", "ColMajor"}, p2 \in {"RowMajor", "ColMajor"},
     shape \in UNION { Trees(n) : n \in 1..MaxRank },
     skind \in {"whole", "sub"}, dkind \in {"whole", "sub", "parent"} :
    \E subshape \in SubShapes(shape) :
      LET sv == CopyView(skind, p1, shape, subshape)
          dv == IF dkind = "whole" THEN CopyView("whole", p2, sv.layout.shape, subshape)
                ELSE IF dkind = "sub" THEN CopyView("sub", p2, shape, subshape)
                ELSE CopyView("whole", p2, shape, subshape)
      IN /\ TiledIdle
         /\ LayoutIdle
         /\ GridIdle
         /\ TensorIdle
         /\ DivideIdle
         /\ GemmIdle
         /\ BlasIdle
         /\ copy_src = sv
         /\ copy_dst = dv
         /\ src_data = [k \in 0..size(shape) - 1 |-> k + 1]
         /\ dst_data = [k \in 0..(IF dkind = "whole" THEN size(sv.layout.shape)
                                   ELSE size(shape)) - 1 |-> 0]
         /\ copy_pc = "ready"

\* tensor_copy(&src, &mut dst) that returns
CopyReturns ==
  /\ copy_pc = "ready"
  /\ LET r == tensor_copy(copy_src, copy_dst, src_data, dst_data)
     IN /\ r.ok
        /\ dst_data' = r.data
  /\ copy_pc' = "returned"
  /\ UNCHANGED <<copy_src, copy_dst, src_data>>
  /\ UNCHANGED <<tiledVars, layoutVars, gridVars, tensorVars, divideVars, gemmVars, blasVars>>

\* tensor_copy(&src, &mut dst) that panics
CopyPanics ==
  /\ copy_pc = "ready"
  /\ LET r == tensor_copy(copy_src, copy_dst, src_data, dst_data)
     IN /\ ~r.ok
        /\ dst_data' = r.data
  /\ copy_pc' = "panicked"
  /\ UNCHANGED <<copy_src, copy_dst, src_data>>
  /\ UNCHANGED <<tiledVars, layoutVars, gridVars, tensorVars, divideVars, gemmVars, blasVars>>

CopyNext == CopyReturns \/ CopyPanics

SpecCopy == CopyInit /\ [][CopyNext]_vars

(***************************************************************************)
(* The BLAS loader machine (src/src/blas.rs): threads call                  *)
(* GenericBlas::gemm_f32, which goes through load_blas, i.e.                *)
(* BLAS.get_or_init(closure).  get_or_init runs the closure in one thread   *)
(* at a time while the cell is empty, blocks the other callers meanwhile,   *)
(* and leaves the cell empty when the closure panics.  The environment,     *)
(* which libraries load and which export the symbol, is fixed per process.  *)
(***************************************************************************)
Threads == 1..MaxThreads

FirstLib == "libopenblas.so"

FallbackLib == "libblas.so"

BlasEnvs ==
  { [loads |-> L, syms |-> S] : L \in SUBSET {FirstLib, FallbackLib},
                                S \in SUBSET {FirstLib, FallbackLib} }

\* Library::new(name) succeeds
LibraryNew(env, name) == name \in env.loads

\* lib.get::<CblasSgemm>(b"cblas_sgemm\0") succeeds
GetSymbol(env, name) == name \in env.syms

\* a OnceLock that never reports itself set
OnceLockNeverSet(cell) == FALSE

\* OnceLock: the cell holds a value, get_or_init returns it without the closure
OnceLockIsSet(cell) == cell.set

ThreadIdle == [pc |-> "idle", lib |-> "", handle |-> 0]

BlasInit ==
  /\ TiledIdle
  /\ LayoutIdle
  /\ GridIdle
  /\ TensorIdle
  /\ DivideIdle
  /\ GemmIdle
  /\ CopyIdle
  /\ blas_cell = EmptyCell
  /\ blas_init = 0
  /\ blas_env \in { e \in BlasEnvs : e.syms \subseteq e.loads }
  /\ thr = [t \in Threads |-> ThreadIdle]
  /\ blas_hist = [calls |-> 0, tried |-> <<>>, live |-> {}, sets |-> 0,
                  kernel |-> <<>>, returned |-> 0]

\* a thread enters GenericBlas::gemm_f32
BlasCallStart(t) ==
  /\ thr[t].pc = "idle"
  /\ blas_hist.calls < MaxBlasCalls
  /\ thr' = [thr EXCEPT ![t].pc = "load_blas"]
  /\ blas_hist' = [blas_hist EXCEPT !.calls = @ + 1]
  /\ UNCHANGED <<blas_cell, blas_init, blas_env>>
  /\ UNCHANGED <<tiledVars, layoutVars, gridVars, tensorVars, divideVars, gemmVars, copyVars>>

\* get_or_init on a set cell: the cached BlasSymbols
GetCached(t) ==
  /\ thr[t].pc = "load_blas"
  /\ OnceLockIsSet(blas_cell)
  /\ thr' = [thr EXCEPT ![t] = [pc |-> "kernel", lib |-> blas_cell.lib,
                                 handle |-> blas_cell.handle]]
  /\ UNCHANGED <<blas_cell, blas_init, blas_env, blas_hist>>
  /\ UNCHANGED <<tiledVars, layoutVars, gridVars, tensorVars, divideVars, gemmVars, copyVars>>

\* get_or_init on an empty cell that no thread initialises: run the closure
BeginInit(t) ==
  /\ thr[t].pc = "load_blas"
  /\ ~OnceLockIsSet(blas_cell)
  /\ blas_init = 0
  /\ blas_init' = t
  /\ thr' = [thr EXCEPT ![t].pc = "open_first"]
  /\ UNCHANGED <<blas_cell, blas_env, blas_hist>>
  /\ UNCHANGED <<tiledVars, layoutVars, gridVars, tensorVars, divideVars, gemmVars, copyVars>>

\* Library::new("libopenblas.so")
OpenFirst(t) ==
  /\ thr[t].pc = "open_first"
  /\ LET ok == LibraryNew(blas_env, FirstLib)
         h  == Len(blas_hist.tried) + 1
     IN /\ blas_hist' = [blas_hist EXCEPT
                           !.tried = Append(@, [lib |-> FirstLib, ok |-> ok]),
                           !.live = IF ok THEN @ \cup {h} ELSE @]
        /\ thr' = [thr EXCEPT ![t] =
                     IF ok THEN [pc |-> "bind", lib |-> FirstLib, handle |-> h]
                     ELSE [pc |-> "open_fallback", lib |-> "", handle |-> 0]]
  /\ UNCHANGED <<blas_cell, blas_init, blas_env>>
  /\ UNCHANGED <<tiledVars, layoutVars, gridVars, tensorVars, divideVars, gemmVars, copyVars>>

\* .or_else(|_| Library::new("libblas.so")).expect("Failed to load BLAS library")
OpenFallback(t) ==
  /\ thr[t].pc = "open_fallback"
  /\ LET ok == LibraryNew(blas_env, FallbackLib)
         h  == Len(blas_hist.tried) + 1
     IN /\ blas_hist' = [blas_hist EXCEPT
                           !.tried = Append(@, [lib |-> FallbackLib, ok |-> ok]),
                           !.live = IF ok THEN @ \cup {h} ELSE @]
        /\ thr' = [thr EXCEPT ![t] =
                     IF ok THEN [pc |-> "bind", lib |-> FallbackLib, handle |-> h]
                     ELSE [pc |-> "panicked", lib |-> "", handle |-> 0]]
        /\ blas_init' = IF ok THEN blas_init ELSE 0
  /\ UNCHANGED <<blas_cell, blas_env>>
  /\ UNCHANGED <<tiledVars, layoutVars, gridVars, tensorVars, divideVars, gemmVars, copyVars>>

\* lib.get(b"cblas_sgemm\0").expect(..), then the cell is set to BlasSymbols;
\* when the symbol is missing the closure panics and drops the Library
BindSymbol(t) ==
  /\ thr[t].pc = "bind"
  /\ IF GetSymbol(blas_env, thr[t].lib)
     THEN /\ blas_cell' = [set |-> TRUE, lib |-> thr[t].lib, handle |-> thr[t].handle]
          /\ blas_hist' = [blas_hist EXCEPT !.sets = @ + 1]
          /\ thr' = [thr EXCEPT ![t].pc = "kernel"]
     ELSE /\ blas_cell' = blas_cell
          /\ blas_hist' = [blas_hist EXCEPT !.live = @ \ {thr[t].handle}]
          /\ thr' = [thr EXCEPT ![t] = [pc |-> "panicked", lib |-> "", handle |-> 0]]
  /\ blas_init' = 0
  /\ UNCHANGED blas_env
  /\ UNCHANGED <<tiledVars, layoutVars, gridVars, tensorVars, divideVars, gemmVars, copyVars>>

\* (blas.sgemm)(CblasRowMajor, ...) through the BlasSymbols load_blas returned
InvokeKernel(t) ==
  /\ thr[t].pc = "kernel"
  /\ blas_hist' = [blas_hist EXCEPT !.kernel = Append(@, thr[t].handle),
                                    !.returned = @ + 1]
  /\ thr' = [thr EXCEPT ![t] = ThreadIdle]
  /\ UNCHANGED <<blas_cell, blas_init, blas_env>>
  /\ UNCHANGED <<tiledVars, layoutVars, gridVars, tensorVars, divideVars, gemmVars, copyVars>>

BlasNext ==
  \E t \in Threads :
    \/ BlasCallStart(t)
    \/ GetCached(t)
    \/ BeginInit(t)
    \/ OpenFirst(t)
    \/ OpenFallback(t)
    \/ BindSymbol(t)
    \/ InvokeKernel(t)

SpecBlas == BlasInit /\ [][BlasNext]_vars

(***************************************************************************)
(* Claims about the ragged tile iterator and the tiled views.               *)
(***************************************************************************)
InTile(x, t) == \A d \in 1..Len(x) : t.start[d] <= x[d] /\ x[d] < t.start[d] + t.len[d]

\* the yielded tiles whose box contains the index vector x
TilesCovering(x) == { i \in 1..Len(tiles) : InTile(x, tiles[i]) }

TileInBox(t) ==
  \A d \in 1..Len(t.start) : t.start[d] >= 0 /\ t.start[d] + t.len[d] <= tile_iter.full_shape[d]

\* no yielded tile leaves the index box, no index vector lies in two yielded
\* tiles, and once next() has returned None every index vector lies in one
TilesPartition ==
  /\ \A i \in 1..Len(tiles) : TileInBox(tiles[i])
  /\ \A x \in Box(tile_iter.full_shape) : Cardinality(TilesCovering(x)) <= 1
  /\ pc = "none" =>
       \A x \in Box(tile_iter.full_shape) : Cardinality(TilesCovering(x)) = 1

\* C1: for every pair of equal-length vectors tile and full with all extents
\* >= 1, the tiles the ragged iterator yields partition the index box: every
\* index vector of the box lies in exactly one yielded tile and no tile holds
\* a point outside the box.
C1_TilesPartitionIndexBox == pc # "idle" => TilesPartition

\* the same for vectors of at least one dimension, where the iterator ends
C1_TilesPartitionNonEmptyRank ==
  (pc # "idle" /\ Len(tile_iter.full_shape) >= 1) => TilesPartition

\* a clipped boundary tile has been yielded and the iterator has ended
C1_RaggedIterationEnded ==
  /\ pc = "none"
  /\ Len(tiles) >= 4
  /\ \E i \in 1..Len(tiles) : tiles[i].len # tile_iter.tile_shape

\* C2: for a row-major tensor with leaf shape (M,N) and any tile size (tm,tn)
\* with extents >= 1, writing (start0+i)*N + (start1+j) at local coordinate
\* (i,j) of every sub-view produced by tiles_mut leaves buffer[k] = k for every
\* k in [0, M*N): no cell is written twice, none is skipped, no write falls
\* outside the buffer.
C2_TiledWritesFillBuffer ==
  (pc # "idle" /\ Len(tile_iter.full_shape) = 2) =>
    /\ ~oob
    /\ DOMAIN data = 0..(tile_iter.full_shape[1] * tile_iter.full_shape[2] - 1)
    /\ \A k \in DOMAIN data : nwrites[k] <= 1 /\ (nwrites[k] = 1 => data[k] = k)
    /\ pc = "none" => \A k \in DOMAIN data : nwrites[k] = 1 /\ data[k] = k

\* a two-dimensional tensor was written through four or more tiles, one of them
\* a clipped boundary tile, and the iterator has ended
C2_RaggedTensorWritten ==
  /\ pc = "none"
  /\ Len(tile_iter.full_shape) = 2
  /\ Len(tiles) >= 4
  /\ \E i \in 1..Len(tiles) : tiles[i].len # tile_iter.tile_shape
  /\ \A k \in DOMAIN data : data[k] = k

(***************************************************************************)
(* Claims about Layout: idx2crd, crd2idx, is_contiguous, ==, cosize.        *)
(***************************************************************************)
\* C3: for every row-major Layout over any shape (leaf or nested, all extents
\* >= 1) and every linear index i with 0 <= i < size(), idx2crd(i) does not
\* fail and crd2idx(idx2crd(i)) = i.
C3_RowMajorRoundTrip ==
  (call.op = "roundtrip" /\ policy = "RowMajor") =>
    /\ DOMAIN call.ret = 0..size(layout.shape) - 1
    /\ \A i \in DOMAIN call.ret : call.ret[i].ok /\ call.ret[i].idx = i

\* the round trip has run over the row-major layout of the nested shape
\* ((2), ((2), (2))), and index 5 went through the coordinate ((1), ((0), (1)))
C3_NestedRoundTripDone ==
  /\ call.op = "roundtrip"
  /\ policy = "RowMajor"
  /\ layout.shape = tup(<<int(<<2>>), tup(<<int(<<2>>), int(<<2>>)>>)>>)
  /\ call.ret[5].crd = tup(<<int(<<1>>), tup(<<int(<<0>>), int(<<1>>)>>)>>)
  /\ call.ret[5].idx = 5

\* C6: a Layout built by Layout::row_major reports is_contiguous() = true; and
\* for a row-major parent of shape (M,N), the layout of subview(start, (r,c))
\* reports is_contiguous() = false whenever c < N and true when c = N.
C6_RowMajorAndSubviewContiguity ==
  /\ (call.op # "idle" /\ policy = "RowMajor") => is_contiguous(layout)
  /\ (call.op = "subview" /\ policy = "RowMajor" /\ flat_len(layout.shape) = 2) =>
       (is_contiguous(view.layout) <=> flatten(view.layout.shape)[2] = flatten(layout.shape)[2])

\* the sub-view (2,1) at (0,1) of the row-major (2,2) parent was taken: it keeps
\* the strides (2,1) and is not contiguous
C6_NarrowSubviewTaken ==
  /\ call.op = "subview"
  /\ policy = "RowMajor"
  /\ layout.shape = int(<<2, 2>>)
  /\ view.layout.shape = int(<<2, 1>>)
  /\ view.layout.stride = int(<<2, 1>>)
  /\ view.ptr = 1
  /\ ~is_contiguous(view.layout)

\* crd2idx sends every coordinate in range to its row-major rank in the shape
RowMajorMapping(l) ==
  \A c \in Coords(l.shape) : crd2idx(l, c) = Ok(FlatIndex(flatten(c), flatten(l.shape)))

\* C7: for every Layout, however it was constructed (Layout::new with either
\* policy, or with_shape_stride), is_contiguous() is true exactly when crd2idx
\* sends every coordinate in range to its row-major rank within the shape.
C7_ContiguousIffRowMajorMapping ==
  call.op # "idle" =>
    /\ is_contiguous(layout) <=> RowMajorMapping(layout)
    /\ is_contiguous(view.layout) <=> RowMajorMapping(view.layout)

\* C8: two Layout values compare equal (==) if and only if their shape trees
\* are equal and their stride trees are equal, whichever constructor built them.
C8_EqualIffShapeAndStrideEqual ==
  call.op = "eq" =>
    (call.ret <=> /\ TupleEq(layout.shape, view.layout.shape)
                  /\ TupleEq(layout.stride, view.layout.stride))

\* C9: for every Layout built by Layout::row_major over any shape (leaf or
\* branch, here with at least one extent) and every coordinate c in range,
\* crd2idx(c) < cosize().
C9_CosizeBoundsRowMajorIndexes ==
  (call.op = "cosize" /\ policy = "RowMajor" /\ flat_len(layout.shape) >= 1) =>
    /\ call.ret.ok
    /\ \A c \in Coords(layout.shape) :
         LET idx == crd2idx(layout, c) IN idx.ok /\ idx.val < call.ret.val

\* C10: Tuple::dot, and so Layout::crd2idx, fails on every tree-shape mismatch
\* between its operands (leaves of different length and branches with a
\* different number of children included); it never returns a result computed
\* over the common prefix.
C10_DotFailsOnEveryMismatch ==
  (call.op = "crd2idx" /\ ~Congruent(call.arg, layout.stride)) => ~call.ret.ok

(***************************************************************************)
(* Claims about Layout::tile_iter and Layout::rest_iter.                    *)
(***************************************************************************)
\* floor(L_d / T_d) for every dimension d
Quotients(L, T) == [d \in 1..Len(L) |-> L[d] \div T[d]]

\* the start coordinates (g_d * T_d) of the whole tiles, g in row-major order
WholeTileStarts(L, T) ==
  LET q == Quotients(L, T)
  IN [k \in 1..SeqProduct(q) |-> [d \in 1..Len(L) |-> Unrank(k - 1, q)[d] * T[d]]]

\* C4: for a layout with leaf extents L and a tiler with extents T, tile_iter
\* yields exactly prod_d floor(L_d/T_d) items, the tile start coordinates
\* (g_d * T_d) for 0 <= g_d < floor(L_d/T_d) in row-major order.
C4_TileIterYieldsWholeTileStarts ==
  (gpc = "none" /\ grid_of.which = "tile") =>
    items = WholeTileStarts(grid_of.layout, grid_of.tiler)

\* C5: when some L_d is not a multiple of T_d, rest_iter yields exactly one
\* item, the start coordinate of the remainder block: floor(L_d/T_d) * T_d.
C5_RestIterYieldsRemainderStart ==
  (/\ gpc = "none"
   /\ grid_of.which = "rest"
   /\ \E d \in 1..Len(grid_of.layout) : grid_of.layout[d] % grid_of.tiler[d] # 0) =>
    items = << [d \in 1..Len(grid_of.layout) |->
                  (grid_of.layout[d] \div grid_of.tiler[d]) * grid_of.tiler[d]] >>

(***************************************************************************)
(* Claims about Tensor and its views.                                       *)
(***************************************************************************)
\* C11: Tensor::new(data, layout) panics whenever data.len() # layout.size()
\* and otherwise constructs the tensor; buffer.length = layout.size() then
\* holds in every reachable state, also after as_view / as_view_mut, subview
\* and element writes.
C11_BufferLengthIsLayoutSize ==
  /\ tcall.op = "new" =>
       (tpc = "panicked" <=> DataLen(tensor.data) # size(tensor.layout.shape))
  /\ (tpc \notin {"idle", "new"} /\ tcall.op # "new") =>
       DataLen(tensor.data) = size(tensor.layout.shape)

\* an element of a four-element tensor was written through a sub-view that
\* does not start at the base of the buffer
C11_WrittenThroughSubview ==
  /\ tcall.op = "write"
  /\ ~tcall.oob
  /\ tview.ptr > 0
  /\ DataLen(tensor.data) = 4
  /\ tensor.data[tcall.at] = 42

\* C12: for a view V with layout (S, D), V.subview(start, sub_shape) returns a
\* view with layout (sub_shape, D), the stride tree unchanged, and base V's
\* base plus V.crd2idx(start); so for every coordinate c within sub_shape the
\* sub-view's element at c is the buffer cell of V's element at start + c.
C12_SubviewSharesParentCells ==
  (tcall.op = "subview" /\ Congruent(tcall.start, tparent.layout.stride)
                        /\ Congruent(tcall.subshape, tparent.layout.stride)) =>
    /\ tcall.ok
    /\ TupleEq(tview.layout.shape, tcall.subshape)
    /\ TupleEq(tview.layout.stride, tparent.layout.stride)
    /\ Ok(tview.ptr) = get(tparent, tcall.start)
    /\ \A c \in Coords(tcall.subshape) :
         get(tview, c) = get(tparent, TreePlus(tcall.start, c))

\* a sub-view was taken at a start off the origin of a view that is itself a
\* sub-view off the base of the buffer
C12_NestedSubviewTaken ==
  /\ tcall.op = "subview"
  /\ tpc = "live"
  /\ tparent.ptr > 0
  /\ tview.ptr > tparent.ptr

\* C13: for every view whose layout has two flattened dimensions, its shape the
\* leaf (R,C) or the branch ((R),(C)), subview_2d(r0,c0,r,c) succeeds and is
\* the general subview in two dimensions: base offset r0*stride0 + c0*stride1,
\* extents (r,c), strides inherited from the parent.
C13_Subview2DIsSubview ==
  tcall.op = "subview_2d" =>
    /\ tcall.ok
    /\ tview.ptr = tparent.ptr + tcall.start.v[1] * flatten(tparent.layout.stride)[1]
                               + tcall.start.v[2] * flatten(tparent.layout.stride)[2]
    /\ flatten(tview.layout.shape) = tcall.subshape.v
    /\ TupleEq(tview.layout.stride, tparent.layout.stride)

(***************************************************************************)
(* Claims about the divisions of layout_algebra.rs.                         *)
(***************************************************************************)
\* the tree of l with every extent replaced by its quotient by the matching
\* extent of t
RECURSIVE QuotientTree(_, _)
QuotientTree(l, t) ==
  IF l.k = "Int" THEN int([i \in 1..Len(l.v) |-> l.v[i] \div t.v[i]])
  ELSE tup([i \in 1..Len(l.t) |-> QuotientTree(l.t[i], t.t[i])])

\* every extent of the tiler divides the matching extent of the layout
Divisible(l, t) ==
  \A d \in 1..flat_len(l) : flatten(l)[d] % flatten(t)[d] = 0

\* the row-major strides of a flat sequence of extents: the product of the
\* extents to the right
SuffixProducts(ext) ==
  [d \in 1..Len(ext) |-> SeqProduct(SubSeq(ext, d + 1, Len(ext)))]

\* C14: zipped_divide(layout, tiler) returns a layout whose shape has exactly
\* two top-level groups: the tiler's extent tree verbatim, then the same tree
\* structure with every extent replaced by the integer quotient L/T; when
\* every T divides its L the result has the size() of the input layout.
C14_ZippedDivideTileAndQuotients ==
  div_call.op = "zipped_divide" =>
    /\ div_call.ret.ok
    /\ div_call.ret.val.shape =
         tup(<<div_tiler.shape, QuotientTree(div_layout.shape, div_tiler.shape)>>)
    /\ Divisible(div_layout.shape, div_tiler.shape) =>
         size(div_call.ret.val.shape) = size(div_layout.shape)

\* zipped_divide was called on (2,2) with the tiler (1,2) and gave ((1,2),(2,1))
C14_ZippedDivideCalled ==
  /\ div_call.op = "zipped_divide"
  /\ div_layout.shape = int(<<2, 2>>)
  /\ div_tiler.shape = int(<<1, 2>>)
  /\ div_call.ret.val.shape = tup(<<int(<<1, 2>>), int(<<2, 1>>)>>)

\* the shape is the leaf (L_0,...,L_{n-1}) or the branch ((L_0),...,(L_{n-1}))
PlainShape(shape) ==
  \/ shape.k = "Int"
  \/ \A i \in 1..Len(shape.t) : shape.t[i].k = "Int" /\ Len(shape.t[i].v) = 1

\* C15: tiled_divide(layout, tiler) flattens the rest group of zipped_divide by
\* one level: for a layout with n dimensions, its shape the leaf (L_0..L_{n-1})
\* or the branch ((L_0),...,(L_{n-1})), the result shape has top-level arity
\* 1 + n, namely (tile, L_0/T_0, ..., L_{n-1}/T_{n-1}).
C15_TiledDivideArity ==
  (div_call.op = "tiled_divide" /\ PlainShape(div_layout.shape)) =>
    /\ div_call.ret.ok
    /\ div_call.ret.val.shape =
         tup(<<div_tiler.shape>> \o
             [d \in 1..flat_len(div_layout.shape) |->
                int(<<flatten(div_layout.shape)[d] \div flatten(div_tiler.shape)[d]>>)])

\* C16: flat_divide(layout, tiler) returns a layout whose shape is one flat
\* leaf, the tiler's flattened extents followed by the quotients L_d/T_d in
\* dimension order, with row-major strides over that flat shape; its
\* flattened extents equal those of zipped_divide and of tiled_divide.
C16_FlatDivideTileThenQuotients ==
  div_call.op = "flat_divide" =>
    /\ div_call.ret.ok
    /\ div_call.ret.val.shape =
         int(flatten(div_tiler.shape)
               \o flatten(QuotientTree(div_layout.shape, div_tiler.shape)))
    /\ div_call.ret.val.stride = int(SuffixProducts(div_call.ret.val.shape.v))
    /\ div_call.ret.val.shape.v = flatten(zipped_divide(div_layout, div_tiler).val.shape)
    /\ div_call.ret.val.shape.v = flatten(tiled_divide(div_layout, div_tiler).val.shape)

\* flat_divide was called on ((2),(2)) with the tiler ((1),(2)) and gave the
\* leaf (1,2,2,1) with the strides (4,2,1,1)
C16_FlatDivideCalled ==
  /\ div_call.op = "flat_divide"
  /\ div_layout.shape = tup(<<int(<<2>>), int(<<2>>)>>)
  /\ div_tiler.shape = tup(<<int(<<1>>), int(<<2>>)>>)
  /\ div_call.ret.val.shape = int(<<1, 2, 2, 1>>)
  /\ div_call.ret.val.stride = int(<<4, 2, 1, 1>>)

\* the tree of l with every extent L replaced by the pair (T, L-T)
RECURSIVE PairTree(_, _)
PairTree(l, t) ==
  IF l.k = "Int" THEN tup([i \in 1..Len(l.v) |-> int(<<t.v[i], l.v[i] - t.v[i]>>)])
  ELSE tup([i \in 1..Len(l.t) |-> PairTree(l.t[i], t.t[i])])

\* C17: logical_divide(layout, tiler) replaces every layout extent L matched
\* with tile extent T (T <= L) by the pair (T, L-T), keeping the order and the
\* nesting of the dimensions, and the result is re-strided row-major.
C17_LogicalDividePairs ==
  (/\ div_call.op = "logical_divide"
   /\ \A d \in 1..flat_len(div_layout.shape) :
        flatten(div_tiler.shape)[d] <= flatten(div_layout.shape)[d]) =>
    /\ div_call.ret.ok
    /\ div_call.ret.val.shape = PairTree(div_layout.shape, div_tiler.shape)
    /\ flatten(div_call.ret.val.stride) = SuffixProducts(flatten(div_call.ret.val.shape))
    /\ Congruent(div_call.ret.val.stride, div_call.ret.val.shape)

\* logical_divide was called on the column-major layout of ((2),(2)) with the
\* tiler ((1),(1)) and gave ((1,1),(1,1)) with the strides ((1,1),(1,1))
C17_LogicalDivideCalled ==
  /\ div_call.op = "logical_divide"
  /\ div_layout = col_major(tup(<<int(<<2>>), int(<<2>>)>>))
  /\ div_tiler.shape = tup(<<int(<<1>>), int(<<1>>)>>)
  /\ div_call.ret.val.shape = tup(<<tup(<<int(<<1, 1>>)>>), tup(<<int(<<1, 1>>)>>)>>)
  /\ flatten(div_call.ret.val.stride) = <<1, 1, 1, 1>>

(***************************************************************************)
(* Claims about gemm_f32 and the lowering of layouts to BLAS arguments.     *)
(***************************************************************************)
\* the layout is the dense row-major layout of its two-dimensional shape
DenseRowMajor2D(v) == flat_len(v.layout.shape) = 2 /\ v.layout = row_major(v.layout.shape)

\* the layout is the column-major layout of a shape with more than one row
ColMajorRows2D(v) ==
  /\ flat_len(v.layout.shape) = 2
  /\ v.layout = col_major(v.layout.shape)
  /\ flatten(v.layout.shape)[1] > 1

\* A is (M,K), B is (K,N) and C is (M,N)
Conformable ==
  /\ flatten(gemm_b.layout.shape)[1] = flatten(gemm_a.layout.shape)[2]
  /\ flatten(gemm_c.layout.shape)[1] = flatten(gemm_a.layout.shape)[1]
  /\ flatten(gemm_c.layout.shape)[2] = flatten(gemm_b.layout.shape)[2]

\* C18: for a dense row-major triple A:(M,K), B:(K,N), C:(M,N) with M,K,N >= 1
\* gemm_f32 invokes the backend exactly once with no-transpose for A and for
\* B, m=M, n=N, k=K, lda=K, ldb=N, ldc=N.
C18_RowMajorTripleLowering ==
  (/\ gemm_pc \in {"returned", "panicked"}
   /\ DenseRowMajor2D(gemm_a) /\ DenseRowMajor2D(gemm_b) /\ DenseRowMajor2D(gemm_c)
   /\ Conformable) =>
    LET M == flatten(gemm_a.layout.shape)[1]
        K == flatten(gemm_a.layout.shape)[2]
        N == flatten(gemm_b.layout.shape)[2]
    IN /\ gemm_pc = "returned"
       /\ blas_calls = << [ta |-> "NoTrans", tb |-> "NoTrans", m |-> M, n |-> N, k |-> K,
                           lda |-> K, ldb |-> N, ldc |-> N] >>

\* gemm_f32 returned for the row-major triple (2,2), (2,1), (2,1)
C18_RowMajorGemmReturned ==
  /\ gemm_pc = "returned"
  /\ gemm_a.layout = row_major(int(<<2, 2>>))
  /\ gemm_b.layout = row_major(int(<<2, 1>>))
  /\ gemm_c.layout = row_major(int(<<2, 1>>))
  /\ Len(blas_calls) = 1
  /\ blas_calls[1].lda = 2 /\ blas_calls[1].ldb = 1 /\ blas_calls[1].ldc = 1

\* C19, as stated: a column-major operand (A or B built with Layout::col_major,
\* more than one row) presented to gemm_f32 lowers to the transpose flag with a
\* leading dimension equal to its outer stride, the stride of the first
\* dimension.
C19_ColMajorLeadingIsFirstStride ==
  gemm_pc = "returned" =>
    /\ ColMajorRows2D(gemm_a) =>
         /\ blas_calls[1].ta = "Trans"
         /\ blas_calls[1].lda = flatten(gemm_a.layout.stride)[1]
    /\ ColMajorRows2D(gemm_b) =>
         /\ blas_calls[1].tb = "Trans"
         /\ blas_calls[1].ldb = flatten(gemm_b.layout.stride)[1]

\* C19, amended: a column-major operand (A or B built with Layout::col_major,
\* more than one row) presented to gemm_f32 lowers to the transpose flag with a
\* leading dimension equal to the stride of its second dimension, which is its
\* number of rows; the stride of its first dimension is 1.
C19_ColMajorLeadingIsSecondStride ==
  gemm_pc = "returned" =>
    /\ ColMajorRows2D(gemm_a) =>
         /\ blas_calls[1].ta = "Trans"
         /\ blas_calls[1].lda = flatten(gemm_a.layout.stride)[2]
         /\ blas_calls[1].lda = flatten(gemm_a.layout.shape)[1]
         /\ flatten(gemm_a.layout.stride)[1] = 1
    /\ ColMajorRows2D(gemm_b) =>
         /\ blas_calls[1].tb = "Trans"
         /\ blas_calls[1].ldb = flatten(gemm_b.layout.stride)[2]
         /\ blas_calls[1].ldb = flatten(gemm_b.layout.shape)[1]
         /\ flatten(gemm_b.layout.stride)[1] = 1

\* gemm_f32 returned for a row-major A and a column-major B of two rows
C19_ColMajorOperandLowered ==
  /\ gemm_pc = "returned"
  /\ gemm_a.layout = row_major(int(<<2, 2>>))
  /\ gemm_b.layout = col_major(int(<<2, 2>>))
  /\ blas_calls[1].ta = "NoTrans"
  /\ blas_calls[1].tb = "Trans"
  /\ blas_calls[1].ldb = 2

\* neither flattened stride of the two-dimensional layout is 1
NeitherStrideUnit(l) ==
  /\ flat_len(l.shape) = 2 /\ flat_len(l.stride) = 2
  /\ flatten(l.stride)[1] # 1 /\ flatten(l.stride)[2] # 1

\* rows (or, transposed, columns) of the two-dimensional layout lie further
\* apart than they are long
Gapped(l) ==
  /\ flat_len(l.shape) = 2 /\ flat_len(l.stride) = 2
  /\ \/ flatten(l.stride)[2] = 1 /\ flatten(l.stride)[1] > flatten(l.shape)[2]
     \/ flatten(l.stride)[1] = 1 /\ flatten(l.stride)[2] > flatten(l.shape)[1]

NotDense2D(l) == NeitherStrideUnit(l) \/ Gapped(l)

NonEmptyShape(shape) == flat_len(shape) >= 1

\* c is a coordinate in range of shape: a congruent tree with 0 <= c < extent
RECURSIVE InRange(_, _)
InRange(c, shape) ==
  /\ c.k = shape.k
  /\ len(c) = len(shape)
  /\ IF c.k = "Int" THEN \A i \in 1..Len(c.v) : c.v[i] >= 0 /\ c.v[i] < shape.v[i]
     ELSE \A i \in 1..Len(c.t) : InRange(c.t[i], shape.t[i])

\* C21, as stated: for every Layout and every linear index i >= size(),
\* idx2crd(i) fails instead of returning a coordinate; no coordinate outside
\* the declared extents is ever returned.
C21_Idx2CrdFailsPastSizeOfEveryLayout ==
  call.op = "idx2crd" =>
    \A i \in DOMAIN call.ret :
      /\ i >= size(view.layout.shape) => ~call.ret[i].ok
      /\ call.ret[i].ok => InRange(call.ret[i].val, view.layout.shape)

\* C21, amended: for every Layout built by Layout::row_major or
\* Layout::col_major over a shape of at least one extent, all extents >= 1, and
\* every linear index i >= size(), idx2crd(i) fails instead of returning a
\* coordinate; and for every Layout, that of a sub-view included, no coordinate
\* outside the declared extents is ever returned.
C21_Idx2CrdFailsPastSizeOfPolicyLayout ==
  call.op = "idx2crd" =>
    \A i \in DOMAIN call.ret :
      /\ (call.of = "new" /\ NonEmptyShape(layout.shape) /\ i >= size(layout.shape))
           => ~call.ret[i].ok
      /\ call.ret[i].ok => InRange(call.ret[i].val, view.layout.shape)

\* idx2crd was called past the size of the row-major layout of the nested shape
\* ((2), (2, 2)) and failed at index 8; index 7 decoded to ((1), (1, 1))
C21_PastSizeRejected ==
  /\ call.op = "idx2crd"
  /\ call.of = "new"
  /\ policy = "RowMajor"
  /\ layout.shape = tup(<<int(<<2>>), int(<<2, 2>>)>>)
  /\ call.ret[7] = Ok(tup(<<int(<<1>>), int(<<1, 1>>)>>))
  /\ ~call.ret[8].ok

\* C29: for every Layout built by Layout::col_major over a shape with all
\* extents >= 1 and every i in [0, size()), idx2crd(i) does not fail, returns an
\* in-range coordinate c, and crd2idx(c) = i.
C29_ColMajorRoundTrip ==
  (call.op = "roundtrip" /\ policy = "ColMajor") =>
    /\ DOMAIN call.ret = 0..size(layout.shape) - 1
    /\ \A i \in DOMAIN call.ret :
         /\ call.ret[i].ok
         /\ call.ret[i].crd \in Coords(layout.shape)
         /\ call.ret[i].idx = i

\* C25: for every shape, leaf or nested, the strides produced by the row-major
\* policy, read in flattened order, are the products of the flattened extents
\* at the positions after them (innermost stride 1), the stride tree has the
\* tree structure of the shape, and the nested shape addresses memory exactly
\* like its flattened leaf shape.
C25_RowMajorStridesAreSuffixProducts ==
  policy = "RowMajor" =>
    /\ Congruent(layout.stride, layout.shape)
    /\ flatten(layout.stride) = SuffixProducts(flatten(layout.shape))
    /\ call.op = "crd2idx_all" =>
         \A c \in DOMAIN call.ret :
           call.ret[c] = crd2idx(row_major(int(flatten(layout.shape))), int(flatten(c)))

\* crd2idx ran over the row-major layout of ((2, 2), (2)), whose strides are
\* ((4, 2), (1)), and mapped ((1, 0), (1)) to 5
C25_NestedRowMajorAddressed ==
  /\ call.op = "crd2idx_all"
  /\ policy = "RowMajor"
  /\ layout.shape = tup(<<int(<<2, 2>>), int(<<2>>)>>)
  /\ layout.stride = tup(<<int(<<4, 2>>), int(<<1>>)>>)
  /\ call.ret[tup(<<int(<<1, 0>>), int(<<1>>)>>)] = Ok(5)

\* C28: for every Layout built by Layout::row_major or Layout::col_major over a
\* shape of any nesting with all extents >= 1, crd2idx restricted to in-range
\* coordinates is a bijection onto [0, size()): distinct coordinates get
\* distinct offsets and every offset is < size(); hence in a Tensor with such a
\* layout every in-range get addresses a cell of the owned buffer.
C28_Crd2IdxIsBijection ==
  call.op = "crd2idx_all" =>
    LET offsets == { call.ret[c].val : c \in DOMAIN call.ret }
        t       == TensorNew([k \in 0..size(layout.shape) - 1 |-> 0], layout)
    IN /\ DOMAIN call.ret = Coords(layout.shape)
       /\ \A c \in DOMAIN call.ret : call.ret[c].ok
       /\ \A c \in DOMAIN call.ret, d \in DOMAIN call.ret :
            call.ret[c].val = call.ret[d].val => c = d
       /\ offsets = 0..size(layout.shape) - 1
       /\ t.ok
       /\ \A c \in DOMAIN call.ret :
            /\ get(as_view(t.val), c).ok
            /\ get(as_view(t.val), c).val \in DOMAIN t.val.data

\* crd2idx ran over the column-major layout of ((2, 2), (2)), whose strides are
\* ((1, 2), (4)), and mapped ((1, 0), (1)) to 5
C28_NestedColMajorAddressed ==
  /\ call.op = "crd2idx_all"
  /\ policy = "ColMajor"
  /\ layout.shape = tup(<<int(<<2, 2>>), int(<<2>>)>>)
  /\ layout.stride = tup(<<int(<<1, 2>>), int(<<4>>)>>)
  /\ call.ret[tup(<<int(<<1, 0>>), int(<<1>>)>>)] = Ok(5)

(***************************************************************************)
(* Claims about the sequences the two iterators yield and their ends.       *)
(***************************************************************************)
\* ceil(full[d] / tile[d]) for every dimension d
TileGrid(tile, full) == [d \in 1..Len(full) |-> (full[d] + tile[d] - 1) \div tile[d]]

\* the tile of the k-th grid index in row-major order, clipped to the box
ExpectedTile(k, tile, full) ==
  LET g     == Unrank(k - 1, TileGrid(tile, full))
      start == [d \in 1..Len(full) |-> g[d] * tile[d]]
  IN [start |-> start,
      len   |-> [d \in 1..Len(full) |-> Min(tile[d], full[d] - start[d])]]

\* C22: for every pair of equal-length vectors tile and full with all extents
\* >= 1, TileIter::new(tile, full) yields exactly prod_d ceil(full[d]/tile[d])
\* tiles; the k-th tile is the one of the k-th grid index g in row-major order,
\* start[d] = g[d]*tile[d] and len[d] = min(tile[d], full[d]-start[d]), so
\* 1 <= len[d] <= tile[d] and start[d]+len[d] <= full[d]; when tile[d] >=
\* full[d] for all d the sequence is the single tile with start 0 and len full.
C22_TilesAreTheClippedGrid ==
  LET tile == tile_iter.tile_shape
      full == tile_iter.full_shape
      n    == SeqProduct(TileGrid(tile, full))
  IN pc # "idle" =>
       /\ Len(tiles) <= n
       /\ pc = "none" => Len(tiles) = n
       /\ \A k \in 1..Len(tiles) :
            /\ tiles[k] = ExpectedTile(k, tile, full)
            /\ \A d \in 1..Len(full) :
                 /\ 1 <= tiles[k].len[d] /\ tiles[k].len[d] <= tile[d]
                 /\ tiles[k].start[d] + tiles[k].len[d] <= full[d]
       /\ (pc = "none" /\ \A d \in 1..Len(full) : tile[d] >= full[d]) =>
            tiles = << [start |-> [d \in 1..Len(full) |-> 0], len |-> full] >>

\* C23: the ragged iterator is finite and single-pass, for vectors of any
\* number of dimensions: a call of next() that returns a tile leaves the
\* iterator in another state (an iterator that returns a tile and stays in its
\* state returns that tile on every later call and never returns None), and
\* once next() has returned None every later next() returns None and yields
\* nothing.
C23_IteratorEndsAndStaysEnded ==
  [][ /\ NextSome => tile_iter' # tile_iter
      /\ pc = "none" => (pc' = "none" /\ tiles' = tiles /\ tile_iter' = tile_iter) ]_vars

\* C24: for every vector of non-negative extents shape, LayoutIterator::new(shape)
\* yields exactly prod(shape) items before returning None, namely every index
\* vector v with 0 <= v[d] < shape[d] exactly once in row-major order; this
\* includes the grids passed by rest_iter, whose extents are 0 when a tile
\* extent exceeds the layout extent.
C24_GridYieldsEveryIndexOnce ==
  gpc # "idle" =>
    /\ Len(items) <= SeqProduct(grid_iter.shape)
    /\ gpc = "none" => Len(items) = SeqProduct(grid_iter.shape)
    /\ \A k \in 1..Len(items) : items[k] = Unrank(k - 1, grid_iter.shape)

(***************************************************************************)
(* Claims about the leading dimensions gemm_f32 hands to the backend.       *)
(***************************************************************************)
\* C30: whenever gemm_f32 reaches the backend call, the leading dimensions
\* describe the operands' memory layout for a row-major BLAS call: ldc >= n and
\* C's inner stride is 1; lda >= k when A is passed no-transpose and lda >= m
\* when transposed; ldb >= n when B is passed no-transpose and ldb >= k when
\* transposed; for every combination of operand layouts that passes the checks
\* of gemm_f32, column-major operands and single rows or columns included.
C30_LeadingDimensionsAreValid ==
  gemm_pc = "returned" =>
    LET r == blas_calls[1]
    IN /\ r.ldc >= r.n
       /\ flatten(gemm_c.layout.stride)[2] = 1
       /\ r.ta = "NoTrans" => r.lda >= r.k
       /\ r.ta = "Trans" => r.lda >= r.m
       /\ r.tb = "NoTrans" => r.ldb >= r.n
       /\ r.tb = "Trans" => r.ldb >= r.k

(***************************************************************************)
(* Claims about the loading of the native BLAS library.                     *)
(***************************************************************************)
\* the environment lets load_blas succeed: the first candidate loads and
\* exports the symbol, or it does not load and the fallback does both
Resolvable(env) ==
  IF LibraryNew(env, FirstLib) THEN GetSymbol(env, FirstLib)
  ELSE LibraryNew(env, FallbackLib) /\ GetSymbol(env, FallbackLib)

\* the Library::new calls that succeeded
Loaded == { i \in 1..Len(blas_hist.tried) : blas_hist.tried[i].ok }

C27_State ==
  /\ blas_hist.sets <= 1
  /\ blas_cell.set <=> blas_hist.sets = 1
  /\ blas_hist.tried # <<>> => blas_hist.calls >= 1
  /\ (blas_hist.returned > 0 \/ blas_hist.kernel # <<>>) => blas_cell.set
  /\ \A i \in 1..Len(blas_hist.tried) :
       blas_hist.tried[i].lib = FallbackLib =>
         i > 1 /\ blas_hist.tried[i - 1] = [lib |-> FirstLib, ok |-> FALSE]
  /\ blas_cell.set =>
       /\ blas_cell.handle \in blas_hist.live
       /\ Cardinality(Loaded) = 1
       /\ \A i \in 1..Len(blas_hist.kernel) : blas_hist.kernel[i] = blas_cell.handle
  /\ ~Resolvable(blas_env) =>
       /\ ~blas_cell.set
       /\ blas_hist.kernel = <<>>
       /\ blas_hist.returned = 0
       /\ \A t \in Threads : thr[t].pc # "kernel"

C27_Step ==
  blas_cell.set =>
    /\ blas_cell' = blas_cell
    /\ blas_hist'.tried = blas_hist.tried
    /\ blas_hist'.live = blas_hist.live

DstCells == { get(copy_dst, c).val : c \in Coords(copy_dst.layout.shape) }

\* C26: tensor_copy(src, dst) copies coordinate-wise: for views of equal shape,
\* whatever their layouts (row-major, column-major, leaf or branch shaped,
\* contiguous or strided sub-view), it completes without failure, afterwards
\* dst's element at c equals src's element at c for every in-range coordinate
\* c, and no cell of dst's buffer outside those coordinates is modified; it
\* panics without writing when the shapes differ.
C26_CopyIsCoordinateWise ==
  copy_pc \in {"returned", "panicked"} =>
    IF TupleEq(copy_src.layout.shape, copy_dst.layout.shape)
    THEN /\ copy_pc = "returned"
         /\ \A c \in Coords(copy_src.layout.shape) :
              dst_data[get(copy_dst, c).val] = src_data[get(copy_src, c).val]
         /\ \A k \in DOMAIN dst_data \ DstCells : dst_data[k] = 0
    ELSE /\ copy_pc = "panicked"
         /\ \A k \in DOMAIN dst_data : dst_data[k] = 0

====
